---------------------------- MODULE Spec2Model ----------------------------
(***************************************************************************)
(* Verification model of the recipe generator's generation pipeline:       *)
(*   - src/lib/rate-limit.ts            (fixed-window rate limiter)         *)
(*   - src/app/api/recipes/generate/route.ts  (generation handler, SSE)     *)
(*   - src/components/recipe/recipe-display.tsx (streaming consumer)        *)
(*   - src/lib/validation.ts            (request validation)                *)
(*   - src/app/api/ingredients/validate/route.ts (autocomplete handler)     *)
(*   - src/components/recipe/ingredient-input.tsx (ingredient input)        *)
(* The specifications SpecLimiter, SpecServer, SpecClient, SpecValidation,  *)
(* SpecMatcher, SpecTitle, SpecAutocomplete and SpecInput share the module. *)
(* Each one moves its own variables and leaves the others at their initial  *)
(* values.                                                                  *)
(***************************************************************************)
EXTENDS Integers, Sequences, FiniteSets, TLC

VARIABLES
    \* ---- rate limiter (src/lib/rate-limit.ts)
    now,            \* Date.now(), in milliseconds
    advances,       \* number of clock advances made so far (bounded)
    limiters,       \* the three RateLimiterMemory instances: name -> key -> record
    caller,         \* the identity whose calls are followed: [id, auth]
    rlLast,         \* result of the last consume call, with the call's kind
    rlWindow,       \* per action: start of the current fixed window and calls made in it
    \* ---- generation handler (src/app/api/recipes/generate/route.ts)
    sreq,           \* the requests being handled: slot -> request record
    granted,        \* number of requests of `caller` that consumeRateLimit allowed
    \* ---- streaming consumer (src/components/recipe/recipe-display.tsx)
    ingredients,    \* the ingredients prop of RecipeDisplay
    rd,             \* the component's state, refs and timers
    creq,           \* the generateRecipe calls that are suspended at an await: id -> request
    lastOp,         \* the user operation of the last step: generateRecipe, cancelGeneration, other
    cancelSnap,     \* what the display showed right after cancelGeneration cut a read
    sinceChange,    \* the ingredients changed mid-recipe and no complete event came since
    \* ---- request validation (src/lib/validation.ts)
    vbody,          \* the request body handed to recipeGenerationSchema.safeParse
    vres,           \* what safeParse returned for it
    \* ---- fuzzy matcher (src/lib/validation.ts), title extraction (recipe-display.tsx)
    matcher,        \* the input handed to findClosestIngredient and what it returned
    titleRun,       \* the content of a complete event and the title extracted from it
    \* ---- autocomplete handler (src/app/api/ingredients/validate/route.ts)
    areq,           \* the GET request being handled
    \* ---- ingredient input (src/components/recipe/ingredient-input.tsx)
    inp             \* the component's state, its pending timers and the requests it issued

limiterVars == <<now, advances, limiters, caller, rlLast, rlWindow>>
serverVars == <<sreq, granted>>
clientVars == <<ingredients, rd, creq, lastOp, cancelSnap, sinceChange>>

validationVars == <<vbody, vres>>

auxVars == <<matcher, titleRun, areq, inp>>
vars == <<limiterVars, serverVars, clientVars, validationVars, auxVars>>

-----------------------------------------------------------------------------
(* JavaScript values that the limiter code computes with.                  *)

JSNum(n) == [kind |-> "number", v |-> n]
JSNaN == [kind |-> "NaN", v |-> 0]
JSUndefined == [kind |-> "undefined", v |-> 0]

\* obj.name on a JavaScript object: undefined when the object has no such property
JSGet(obj, name) == IF name \in DOMAIN obj THEN JSNum(obj[name]) ELSE JSUndefined

\* a - b : NaN as soon as one operand is undefined or NaN
JSMinus(a, b) ==
    IF a.kind = "number" /\ b.kind = "number" THEN JSNum(a.v - b.v) ELSE JSNaN

\* Math.max(a, b) : NaN as soon as one operand is NaN
JSMathMax(a, b) ==
    IF a.kind = "number" /\ b.kind = "number"
    THEN JSNum(IF a.v >= b.v THEN a.v ELSE b.v)
    ELSE JSNaN

\* Math.round(ms / 1000) || 1, for ms >= 0 : round half up, and 0 replaced by 1
RoundSecsOr1(ms) ==
    LET r == (ms + 500) \div 1000 IN IF r = 0 THEN 1 ELSE r

-----------------------------------------------------------------------------
(* Program constants.                                                      *)

GUEST_REQUESTS_PER_HOUR == 5
USER_REQUESTS_PER_HOUR == 20
VALIDATION_REQUESTS_PER_MINUTE == 10
GenerationDuration == 3600
ValidationDuration == 60

(* Bounds of the model.                                                    *)
MaxAdvances == 3    \* clock advances per behaviour
MaxOver == 2        \* consumes counted beyond a limiter's points in one window

\* The clock advances by one of these steps (ms): just short of the validation
\* window, the rest of it, and the rest of the generation window.
TimeSteps == {59700, 300, 3540000}

LimiterNames == {"rateLimiterGuest", "rateLimiterUser", "rateLimiterValidation"}

Callers == {[id |-> "user-1", auth |-> TRUE], [id |-> "203.0.113.7", auth |-> FALSE]}

EmptyStore == [k \in {} |-> 0]

LimitOf(c) == IF c.auth THEN USER_REQUESTS_PER_HOUR ELSE GUEST_REQUESTS_PER_HOUR

NoResult == [allowed |-> FALSE, limit |-> 0, remaining |-> JSUndefined,
             resetTime |-> 0, retryAfter |-> JSUndefined]

-----------------------------------------------------------------------------
(* RateLimiterMemory of rate-limiter-flexible, as instantiated in          *)
(* rate-limit.ts: an in-memory map key -> {value, expiresAt}.  consume(key) *)
(* adds one point to the key's record, or starts a new record expiring      *)
(* `duration` seconds later when there is none or it has expired; it        *)
(* resolves with a RateLimiterRes {msBeforeNext, remainingPoints,           *)
(* consumedPoints, isFirstInDuration} when consumedPoints <= points and     *)
(* rejects with it otherwise.  The whole call runs in one turn of the       *)
(* event loop.                                                              *)

LimiterConsumeSkipsCheck(points, duration, store, key, t) ==
    LET live == key \in DOMAIN store /\ store[key].expiresAt - t > 0
        rec == IF live
               THEN [value |-> store[key].value + 1, expiresAt |-> store[key].expiresAt]
               ELSE [value |-> 1, expiresAt |-> t + duration * 1000]
    IN [store |-> [k \in DOMAIN store \cup {key} |-> IF k = key THEN rec ELSE store[k]],
        rejected |-> rec.value > points + 1,
        res |-> [msBeforeNext |-> rec.expiresAt - t,
                 remainingPoints |-> IF points - rec.value > 0 THEN points - rec.value ELSE 0,
                 consumedPoints |-> rec.value,
                 isFirstInDuration |-> IF live THEN 0 ELSE 1]]

LimiterConsume(points, duration, store, key, t) ==
    LET live == key \in DOMAIN store /\ store[key].expiresAt - t > 0
        rec == IF live
               THEN [value |-> store[key].value + 1, expiresAt |-> store[key].expiresAt]
               ELSE [value |-> 1, expiresAt |-> t + duration * 1000]
    IN [store |-> [k \in DOMAIN store \cup {key} |-> IF k = key THEN rec ELSE store[k]],
        rejected |-> rec.value > points,
        res |-> [msBeforeNext |-> rec.expiresAt - t,
                 remainingPoints |-> IF points - rec.value > 0 THEN points - rec.value ELSE 0,
                 consumedPoints |-> rec.value,
                 isFirstInDuration |-> IF live THEN 0 ELSE 1]]

\* checkRateLimit(identifier, isAuthenticated): limiter.get(key) reads the key's
\* record without consuming a point
CheckRateLimit(identifier, isAuthenticated, lims, t) ==
    LET limiter == IF isAuthenticated THEN "rateLimiterUser" ELSE "rateLimiterGuest"
        limit == IF isAuthenticated THEN USER_REQUESTS_PER_HOUR ELSE GUEST_REQUESTS_PER_HOUR
        key == <<"recipe_generation", identifier>>
        live == key \in DOMAIN lims[limiter] /\ lims[limiter][key].expiresAt - t > 0
    IN [limiters |-> lims,
        result |-> [allowed |-> TRUE,
                    limit |-> limit,
                    remaining |-> JSNum(limit - 1),
                    resetTime |-> IF live THEN lims[limiter][key].expiresAt ELSE t,
                    retryAfter |-> JSUndefined]]

\* consumeRateLimit(identifier, isAuthenticated) at time t on the instances lims:
\* the RateLimitResult returned and the instances afterwards.
ConsumeRateLimit(identifier, isAuthenticated, lims, t) ==
    LET limiter == IF isAuthenticated THEN "rateLimiterUser" ELSE "rateLimiterGuest"
        limit == IF isAuthenticated THEN USER_REQUESTS_PER_HOUR ELSE GUEST_REQUESTS_PER_HOUR
        key == <<"recipe_generation", identifier>>
        c == LimiterConsume(limit, GenerationDuration, lims[limiter], key, t)
    IN [limiters |-> [lims EXCEPT ![limiter] = c.store],
        result |->
          IF ~c.rejected
          THEN [allowed |-> TRUE,
                limit |-> limit,
                remaining |-> JSMathMax(JSNum(0), JSMinus(JSNum(limit), JSGet(c.res, "totalHits"))),
                resetTime |-> t + c.res.msBeforeNext,
                retryAfter |-> JSUndefined]
          ELSE [allowed |-> FALSE,
                limit |-> limit,
                remaining |-> JSNum(0),
                resetTime |-> t + c.res.msBeforeNext,
                retryAfter |-> JSNum(RoundSecsOr1(c.res.msBeforeNext))]]

ConsumeValidationSharesGuest(identifier, lims, t) ==
    LET key == <<"recipe_generation", identifier>>
        c == LimiterConsume(VALIDATION_REQUESTS_PER_MINUTE, ValidationDuration,
                            lims["rateLimiterGuest"], key, t)
    IN [limiters |-> [lims EXCEPT !["rateLimiterGuest"] = c.store],
        result |->
          IF ~c.rejected
          THEN [allowed |-> TRUE,
                limit |-> VALIDATION_REQUESTS_PER_MINUTE,
                remaining |-> JSMathMax(JSNum(0),
                                 JSMinus(JSNum(VALIDATION_REQUESTS_PER_MINUTE),
                                         JSGet(c.res, "totalHits"))),
                resetTime |-> t + c.res.msBeforeNext,
                retryAfter |-> JSUndefined]
          ELSE [allowed |-> FALSE,
                limit |-> VALIDATION_REQUESTS_PER_MINUTE,
                remaining |-> JSNum(0),
                resetTime |-> t + c.res.msBeforeNext,
                retryAfter |-> JSNum(RoundSecsOr1(c.res.msBeforeNext))]]

\* consumeValidationRateLimit(identifier) at time t on the instances lims
ConsumeValidationRateLimit(identifier, lims, t) ==
    LET key == <<"validation", identifier>>
        c == LimiterConsume(VALIDATION_REQUESTS_PER_MINUTE, ValidationDuration,
                            lims["rateLimiterValidation"], key, t)
    IN [limiters |-> [lims EXCEPT !["rateLimiterValidation"] = c.store],
        result |->
          IF ~c.rejected
          THEN [allowed |-> TRUE,
                limit |-> VALIDATION_REQUESTS_PER_MINUTE,
                remaining |-> JSMathMax(JSNum(0),
                                 JSMinus(JSNum(VALIDATION_REQUESTS_PER_MINUTE),
                                         JSGet(c.res, "totalHits"))),
                resetTime |-> t + c.res.msBeforeNext,
                retryAfter |-> JSUndefined]
          ELSE [allowed |-> FALSE,
                limit |-> VALIDATION_REQUESTS_PER_MINUTE,
                remaining |-> JSNum(0),
                resetTime |-> t + c.res.msBeforeNext,
                retryAfter |-> JSNum(RoundSecsOr1(c.res.msBeforeNext))]]


-----------------------------------------------------------------------------
(* Strings, as sequences of characters, and the request validation of      *)
(* src/lib/validation.ts.  zod reports the issues of every check of a      *)
(* string and of every refinement (none of them aborts), runs a transform  *)
(* only on a value without issues, and hands the array refinement the      *)
(* outputs of the elements.                                                *)

IsSpace(c) == c \in {" ", "\n", "\t"}

RECURSIVE TrimStart(_)
TrimStart(str) ==
    IF str # <<>> /\ IsSpace(Head(str)) THEN TrimStart(Tail(str)) ELSE str

RECURSIVE TrimEnd(_)
TrimEnd(str) ==
    IF str # <<>> /\ IsSpace(str[Len(str)]) THEN TrimEnd(SubSeq(str, 1, Len(str) - 1)) ELSE str

Trim(str) == TrimEnd(TrimStart(str))

UpperCaseLetters == <<"A", "B", "C", "D", "E", "F", "G", "H", "I", "J", "K", "L", "M", "N", "O", "P", "Q", "R", "S", "T", "U", "V", "W", "X", "Y", "Z">>
LowerCaseLetters == <<"a", "b", "c", "d", "e", "f", "g", "h", "i", "j", "k", "l", "m", "n", "o", "p", "q", "r", "s", "t", "u", "v", "w", "x", "y", "z">>

\* String.prototype.toLowerCase
ToLowerCase(str) ==
    [i \in 1..Len(str) |->
        IF \E k \in 1..Len(UpperCaseLetters) : UpperCaseLetters[k] = str[i]
        THEN LowerCaseLetters[CHOOSE k \in 1..Len(UpperCaseLetters) : UpperCaseLetters[k] = str[i]]
        ELSE str[i]]

\* String.prototype.includes
Includes(str, item) ==
    \E i \in 1..(Len(str) - Len(item) + 1) : SubSeq(str, i, i + Len(item) - 1) = item

\* .replace(/[<>\"'&]/g, '')
StripXss(str) == SelectSeq(str, LAMBDA c : c \notin {"<", ">", "\"", "'", "&"})

\* .replace(/\s+/g, ' ')
RECURSIVE CollapseWhitespace(_)
CollapseWhitespace(str) ==
    IF str = <<>> THEN <<>>
    ELSE IF IsSpace(Head(str))
    THEN <<" ">> \o CollapseWhitespace(TrimStart(str))
    ELSE <<Head(str)>> \o CollapseWhitespace(Tail(str))

\* sanitizeInput
SanitizeInput(input) == ToLowerCase(CollapseWhitespace(StripXss(Trim(input))))

MIN_INGREDIENTS == 3
MAX_INGREDIENTS == 15
MAX_INGREDIENT_LENGTH == 50

BLACKLISTED_ITEMS ==
    <<<<"m", "e", "t", "a", "l">>,
      <<"p", "l", "a", "s", "t", "i", "c">>,
      <<"g", "l", "a", "s", "s">>,
      <<"w", "o", "o", "d">>,
      <<"p", "a", "p", "e", "r">>,
      <<"c", "o", "n", "c", "r", "e", "t", "e">>,
      <<"s", "t", "o", "n", "e">>,
      <<"r", "u", "b", "b", "e", "r">>,
      <<"f", "a", "b", "r", "i", "c">>,
      <<"s", "o", "a", "p">>,
      <<"d", "e", "t", "e", "r", "g", "e", "n", "t">>,
      <<"b", "l", "e", "a", "c", "h">>,
      <<"a", "m", "m", "o", "n", "i", "a">>,
      <<"a", "l", "c", "o", "h", "o", "l">>,
      <<"g", "a", "s", "o", "l", "i", "n", "e">>,
      <<"o", "i", "l">>,
      <<"p", "a", "i", "n", "t">>,
      <<"m", "e", "d", "i", "c", "i", "n", "e">>,
      <<"p", "i", "l", "l", "s">>,
      <<"d", "r", "u", "g", "s">>,
      <<"p", "o", "i", "s", "o", "n">>,
      <<"c", "h", "e", "m", "i", "c", "a", "l", "s">>,
      <<"c", "l", "e", "a", "n", "i", "n", "g", " ", "p", "r", "o", "d", "u", "c", "t", "s">>>>

MSG_EMPTY == "Ingredient cannot be empty"
MSG_TOO_LONG == "Ingredient must be less than 50 characters"
MSG_WHITESPACE == "Ingredient cannot be just whitespace"
MSG_NOT_INGREDIENT == "This item is not a valid ingredient"
MSG_TOO_FEW == "At least 3 ingredients required"
MSG_TOO_MANY == "Maximum 15 ingredients allowed"
MSG_DUPLICATE == "Duplicate ingredients are not allowed"
MSG_REQUIRED == "Required"

\* a zod issue; path is `ingredients` (index -1) or `ingredients.<index>`
Issue(code, index, message) == [code |-> code, index |-> index, message |-> message]

\* BLACKLISTED_ITEMS.some(item => val.toLowerCase().includes(item))
Blacklisted(val) ==
    \E k \in 1..Len(BLACKLISTED_ITEMS) : Includes(ToLowerCase(val), BLACKLISTED_ITEMS[k])

\* ingredientSchema, on the entry at `index`: the issues of its checks
IngredientIssues(val, index) ==
    (IF Len(val) < 1 THEN <<Issue("too_small", index, MSG_EMPTY)>> ELSE <<>>)
    \o (IF Len(val) > MAX_INGREDIENT_LENGTH
        THEN <<Issue("too_big", index, MSG_TOO_LONG)>> ELSE <<>>)
    \o (IF ~(Len(Trim(val)) > 0) THEN <<Issue("custom", index, MSG_WHITESPACE)>> ELSE <<>>)
    \o (IF Blacklisted(val) THEN <<Issue("custom", index, MSG_NOT_INGREDIENT)>> ELSE <<>>)

IngredientOutputRaw(val) == val

\* ingredientSchema: the output for an entry, transformed only when it has no issue
IngredientOutput(val) ==
    IF IngredientIssues(val, 0) = <<>> THEN SanitizeInput(val) ELSE val

RECURSIVE ElementIssues(_, _)
ElementIssues(list, from) ==
    IF from > Len(list) THEN <<>>
    ELSE IngredientIssues(list[from], from - 1) \o ElementIssues(list, from + 1)

DuplicateCheckSkipped(outputs) == TRUE

\* new Set(ingredients.map(i => i.toLowerCase())).size === ingredients.length
AllUnique(outputs) ==
    Cardinality({ToLowerCase(outputs[i]) : i \in 1..Len(outputs)}) = Len(outputs)

\* a request body as request.json() yields it: no JSON at all, an object
\* without `ingredients`, or an object with an array of strings
NoJson == [json |-> FALSE, hasIngredients |-> FALSE, ingredients |-> <<>>]
JsonWithout == [json |-> TRUE, hasIngredients |-> FALSE, ingredients |-> <<>>]
JsonWith(list) == [json |-> TRUE, hasIngredients |-> TRUE, ingredients |-> list]

\* recipeGenerationSchema.safeParse({...body, userId}); the userId of a
\* signed-in user is a UUID and passes
SafeParse(body) ==
    IF ~body.hasIngredients
    THEN [success |-> FALSE, data |-> <<>>,
          issues |-> <<Issue("invalid_type", -1, MSG_REQUIRED)>>]
    ELSE LET list == body.ingredients
             outputs == [i \in 1..Len(list) |-> IngredientOutput(list[i])]
             issues ==
                 (IF Len(list) < MIN_INGREDIENTS
                  THEN <<Issue("too_small", -1, MSG_TOO_FEW)>> ELSE <<>>)
                 \o (IF Len(list) > MAX_INGREDIENTS
                     THEN <<Issue("too_big", -1, MSG_TOO_MANY)>> ELSE <<>>)
                 \o ElementIssues(list, 1)
                 \o (IF ~AllUnique(outputs)
                     THEN <<Issue("custom", -1, MSG_DUPLICATE)>> ELSE <<>>)
         IN IF issues = <<>>
            THEN [success |-> TRUE, data |-> outputs, issues |-> <<>>]
            ELSE [success |-> FALSE, data |-> <<>>, issues |-> issues]

\* formatValidationError: `${path.join('.')}: ${message}` of each issue, in order
FormatValidationError(issues) ==
    [i \in 1..Len(issues) |->
        [path |-> IF issues[i].index < 0 THEN <<"ingredients">>
                  ELSE <<"ingredients", "index">>,
         index |-> issues[i].index,
         message |-> issues[i].message]]

NotParsed == [done |-> FALSE, success |-> FALSE, data |-> <<>>, issues |-> <<>>]

InitValidationIdle ==
    /\ vbody = NoJson
    /\ vres = NotParsed

-----------------------------------------------------------------------------
(* The generation handler, POST of /api/recipes/generate.                  *)

MaxTexts == 2       \* provider text events per request

ServerSlots == {1, 2}

\* text deltas the provider emits, as character sequences
Texts == {<<"R", "e">>, <<"T">>}

\* ingredient lists that arrive in request bodies
RequestLists ==
    {<<<<"t", "o", "m", "a", "t", "o">>, <<"b", "a", "s", "i", "l">>, <<"o", "l", "i", "v", "e", " ", "o", "i", "l">>>>,
     <<<<"t", "o", "m", "a", "t", "o">>, <<"b", "a", "s", "i", "l">>, <<"g", "a", "r", "l", "i", "c">>>>}

\* request bodies: text that is not JSON, or an object with an ingredient list
Bodies == {NoJson} \cup {JsonWith(list) : list \in RequestLists}

\* what the provider's failures carry
ProviderErrors == {"overloaded_error", "invalid x-api-key"}

MSG_GENERATE_FAILED == "Failed to generate recipe. Please try again."
MSG_CONNECT_FAILED == "Failed to connect to AI service. Please try again."
MSG_RATE_LIMITED == "Rate limit exceeded. Please try again later."
MSG_INVALID_REQUEST == "Invalid request data"
MSG_INTERNAL_ERROR == "Internal server error. Please try again later."

\* JSON.stringify of a number-valued property: NaN becomes null, undefined is left out
JsonValue(x) ==
    IF x.kind = "number" THEN x
    ELSE IF x.kind = "NaN" THEN [kind |-> "null", v |-> 0]
    ELSE [kind |-> "absent", v |-> 0]

NoDetails == [absent |-> TRUE]

\* createErrorResponse(message, status, details): the JSON body of the response
CreateErrorResponse(message, status, details) ==
    [status |-> status, success |-> FALSE, error |-> message, details |-> details]

NoResponse == [status |-> 0, success |-> FALSE, error |-> "", details |-> NoDetails]

RateLimitedOmitsDetails(rateLimitResult) ==
    CreateErrorResponse(MSG_RATE_LIMITED, 429, NoDetails)

\* the answer to a request the limiter rejected
RateLimited(rateLimitResult) ==
    CreateErrorResponse(MSG_RATE_LIMITED, 429,
        [retryAfter |-> JsonValue(rateLimitResult.retryAfter),
         resetTime |-> rateLimitResult.resetTime,
         limit |-> rateLimitResult.limit,
         remaining |-> JsonValue(rateLimitResult.remaining)])

\* the answer to a request that fails validation
InvalidRequest(issues, rateLimitResult) ==
    CreateErrorResponse(MSG_INVALID_REQUEST, 400,
        [errors |-> FormatValidationError(issues),
         rateLimitInfo |-> [limit |-> rateLimitResult.limit,
                            remaining |-> JsonValue(rateLimitResult.remaining),
                            resetTime |-> rateLimitResult.resetTime]])

InternalErrorForwardsDetail(error) == CreateErrorResponse(error, 500, NoDetails)

\* the outer catch (error)
InternalError(error) == CreateErrorResponse(MSG_INTERNAL_ERROR, 500, NoDetails)

CompleteFrame(content) == [type |-> "complete", content |-> content, message |-> ""]
ErrorFrame(message) == [type |-> "error", content |-> <<>>, message |-> message]

IdleRequest ==
    [pc |-> "idle", body |-> NoJson, status |-> 0, rl |-> NoResult,
     response |-> NoResponse, providerCalls |-> 0, errorDetail |-> "none",
     provider |-> "none", texts |-> 0, chunks |-> <<>>, fullResponse |-> <<>>,
     isControllerClosed |-> FALSE, controller |-> "none",
     frames |-> <<>>, closeCalls |-> 0]

InitServerIdle ==
    /\ sreq = [r \in ServerSlots |-> IdleRequest]
    /\ granted = 0

-----------------------------------------------------------------------------
(* RecipeDisplay: state of the component before its first request.         *)

MaxFrames == 2      \* frames in one response stream

ClientReqs == {1, 2}

\* ingredient lists the parent passes down
IngredientLists ==
    {<<"tomato", "basil">>,
     <<"tomato", "basil", "garlic">>,
     <<"rice", "beans", "corn", "lime">>}

\* recipe texts, as character sequences
Contents == {<<"#", " ", "A">>, <<"B", "\n", "c">>}

NoError == [msg |-> "null", n |-> 0]

FreeReq ==
    [pc |-> "free", ingredients |-> <<>>, status |-> 0, retryAfter |-> 0,
     sent |-> <<>>, stream |-> <<>>, pos |-> 0, events |-> <<>>]

NoSnap ==
    [active |-> FALSE, again |-> FALSE, fullContent |-> <<>>, displayedContent |-> <<>>,
     recipeTitle |-> <<>>, showCursor |-> FALSE, isTyping |-> FALSE, unread |-> 0]

\* typewriter: the closure of type() with its timer; `stale` records that a
\* request was issued after the closure was created
InitialDisplay ==
    [displayedContent |-> <<>>, fullContent |-> <<>>, recipeTitle |-> <<>>,
     error |-> NoError, showCursor |-> FALSE, isTyping |-> FALSE,
     isGeneratingRecipe |-> FALSE,
     hasStartedTypingRef |-> FALSE, isGeneratingRef |-> FALSE,
     abortControllerRef |-> 0,
     typewriter |-> [content |-> <<>>, index |-> 0, pending |-> FALSE, stale |-> FALSE],
     cursorInterval |-> FALSE]

InitClientIdle ==
    /\ ingredients = <<"tomato", "basil">>
    /\ rd = InitialDisplay
    /\ creq = [r \in ClientReqs |-> FreeReq]
    /\ lastOp = "other"
    /\ cancelSnap = NoSnap
    /\ sinceChange = FALSE

-----------------------------------------------------------------------------
(* The fuzzy ingredient matcher, findClosestIngredient of validation.ts,   *)
(* with the vocabulary of the constants module.                            *)

PROTEIN ==
    <<<<"c", "h", "i", "c", "k", "e", "n">>,
      <<"b", "e", "e", "f">>,
      <<"p", "o", "r", "k">>,
      <<"f", "i", "s", "h">>,
      <<"s", "a", "l", "m", "o", "n">>,
      <<"t", "u", "n", "a">>,
      <<"s", "h", "r", "i", "m", "p">>,
      <<"e", "g", "g", "s">>,
      <<"t", "o", "f", "u">>,
      <<"b", "e", "a", "n", "s">>,
      <<"l", "e", "n", "t", "i", "l", "s">>,
      <<"t", "u", "r", "k", "e", "y">>,
      <<"d", "u", "c", "k">>,
      <<"l", "a", "m", "b">>,
      <<"b", "a", "c", "o", "n">>,
      <<"h", "a", "m">>,
      <<"s", "a", "u", "s", "a", "g", "e">>,
      <<"c", "r", "a", "b">>,
      <<"l", "o", "b", "s", "t", "e", "r">>,
      <<"s", "c", "a", "l", "l", "o", "p", "s">>,
      <<"c", "o", "d">>,
      <<"t", "i", "l", "a", "p", "i", "a">>,
      <<"c", "h", "i", "c", "k", "p", "e", "a", "s">>,
      <<"b", "l", "a", "c", "k", " ", "b", "e", "a", "n", "s">>,
      <<"k", "i", "d", "n", "e", "y", " ", "b", "e", "a", "n", "s">>,
      <<"w", "h", "i", "t", "e", " ", "b", "e", "a", "n", "s">>,
      <<"t", "e", "m", "p", "e", "h">>,
      <<"s", "e", "i", "t", "a", "n">>>>

VEGETABLE ==
    <<<<"o", "n", "i", "o", "n">>,
      <<"g", "a", "r", "l", "i", "c">>,
      <<"t", "o", "m", "a", "t", "o">>,
      <<"p", "o", "t", "a", "t", "o">>,
      <<"c", "a", "r", "r", "o", "t">>,
      <<"c", "e", "l", "e", "r", "y">>,
      <<"b", "e", "l", "l", " ", "p", "e", "p", "p", "e", "r">>,
      <<"b", "r", "o", "c", "c", "o", "l", "i">>,
      <<"s", "p", "i", "n", "a", "c", "h">>,
      <<"k", "a", "l", "e">>,
      <<"m", "u", "s", "h", "r", "o", "o", "m", "s">>,
      <<"z", "u", "c", "c", "h", "i", "n", "i">>,
      <<"e", "g", "g", "p", "l", "a", "n", "t">>,
      <<"c", "u", "c", "u", "m", "b", "e", "r">>,
      <<"l", "e", "t", "t", "u", "c", "e">>,
      <<"c", "a", "b", "b", "a", "g", "e">>,
      <<"c", "o", "r", "n">>,
      <<"p", "e", "a", "s">>,
      <<"g", "r", "e", "e", "n", " ", "b", "e", "a", "n", "s">>,
      <<"a", "s", "p", "a", "r", "a", "g", "u", "s">>,
      <<"b", "r", "u", "s", "s", "e", "l", "s", " ", "s", "p", "r", "o", "u", "t", "s">>,
      <<"c", "a", "u", "l", "i", "f", "l", "o", "w", "e", "r">>,
      <<"s", "w", "e", "e", "t", " ", "p", "o", "t", "a", "t", "o">>,
      <<"a", "v", "o", "c", "a", "d", "o">>,
      <<"r", "a", "d", "i", "s", "h">>,
      <<"b", "e", "e", "t", "s">>,
      <<"l", "e", "e", "k">>,
      <<"s", "h", "a", "l", "l", "o", "t">>,
      <<"f", "e", "n", "n", "e", "l">>,
      <<"a", "r", "t", "i", "c", "h", "o", "k", "e">>,
      <<"o", "k", "r", "a">>,
      <<"t", "u", "r", "n", "i", "p">>,
      <<"p", "a", "r", "s", "n", "i", "p">>,
      <<"s", "q", "u", "a", "s", "h">>,
      <<"p", "u", "m", "p", "k", "i", "n">>>>

HERB ==
    <<<<"b", "a", "s", "i", "l">>,
      <<"o", "r", "e", "g", "a", "n", "o">>,
      <<"t", "h", "y", "m", "e">>,
      <<"r", "o", "s", "e", "m", "a", "r", "y">>,
      <<"p", "a", "r", "s", "l", "e", "y">>,
      <<"c", "i", "l", "a", "n", "t", "r", "o">>,
      <<"d", "i", "l", "l">>,
      <<"s", "a", "g", "e">>,
      <<"m", "i", "n", "t">>,
      <<"c", "h", "i", "v", "e", "s">>,
      <<"t", "a", "r", "r", "a", "g", "o", "n">>,
      <<"m", "a", "r", "j", "o", "r", "a", "m">>,
      <<"b", "a", "y", " ", "l", "e", "a", "v", "e", "s">>,
      <<"l", "a", "v", "e", "n", "d", "e", "r">>,
      <<"l", "e", "m", "o", "n", "g", "r", "a", "s", "s">>,
      <<"a", "r", "u", "g", "u", "l", "a">>,
      <<"w", "a", "t", "e", "r", "c", "r", "e", "s", "s">>>>

SPICE ==
    <<<<"s", "a", "l", "t">>,
      <<"b", "l", "a", "c", "k", " ", "p", "e", "p", "p", "e", "r">>,
      <<"p", "a", "p", "r", "i", "k", "a">>,
      <<"c", "u", "m", "i", "n">>,
      <<"c", "o", "r", "i", "a", "n", "d", "e", "r">>,
      <<"t", "u", "r", "m", "e", "r", "i", "c">>,
      <<"g", "i", "n", "g", "e", "r">>,
      <<"c", "i", "n", "n", "a", "m", "o", "n">>,
      <<"n", "u", "t", "m", "e", "g">>,
      <<"c", "a", "r", "d", "a", "m", "o", "m">>,
      <<"c", "l", "o", "v", "e", "s">>,
      <<"r", "e", "d", " ", "p", "e", "p", "p", "e", "r", " ", "f", "l", "a", "k", "e", "s">>,
      <<"g", "a", "r", "l", "i", "c", " ", "p", "o", "w", "d", "e", "r">>,
      <<"o", "n", "i", "o", "n", " ", "p", "o", "w", "d", "e", "r">>,
      <<"c", "a", "y", "e", "n", "n", "e">>,
      <<"c", "h", "i", "l", "i", " ", "p", "o", "w", "d", "e", "r">>,
      <<"c", "u", "r", "r", "y", " ", "p", "o", "w", "d", "e", "r">>,
      <<"s", "m", "o", "k", "e", "d", " ", "p", "a", "p", "r", "i", "k", "a">>,
      <<"w", "h", "i", "t", "e", " ", "p", "e", "p", "p", "e", "r">>,
      <<"a", "l", "l", "s", "p", "i", "c", "e">>,
      <<"f", "e", "n", "n", "e", "l", " ", "s", "e", "e", "d", "s">>,
      <<"m", "u", "s", "t", "a", "r", "d", " ", "s", "e", "e", "d", "s">>,
      <<"s", "t", "a", "r", " ", "a", "n", "i", "s", "e">>,
      <<"s", "a", "f", "f", "r", "o", "n">>,
      <<"v", "a", "n", "i", "l", "l", "a">>,
      <<"c", "o", "c", "o", "a", " ", "p", "o", "w", "d", "e", "r">>>>

GRAIN ==
    <<<<"r", "i", "c", "e">>,
      <<"p", "a", "s", "t", "a">>,
      <<"b", "r", "e", "a", "d">>,
      <<"f", "l", "o", "u", "r">>,
      <<"q", "u", "i", "n", "o", "a">>,
      <<"o", "a", "t", "s">>,
      <<"b", "a", "r", "l", "e", "y">>,
      <<"w", "h", "e", "a", "t">>,
      <<"c", "o", "u", "s", "c", "o", "u", "s">>,
      <<"b", "u", "l", "g", "u", "r">>,
      <<"p", "o", "l", "e", "n", "t", "a">>,
      <<"c", "o", "r", "n", "m", "e", "a", "l">>,
      <<"s", "e", "m", "o", "l", "i", "n", "a">>,
      <<"b", "u", "c", "k", "w", "h", "e", "a", "t">>,
      <<"m", "i", "l", "l", "e", "t">>,
      <<"a", "m", "a", "r", "a", "n", "t", "h">>,
      <<"f", "r", "e", "e", "k", "e", "h">>,
      <<"f", "a", "r", "r", "o">>>>

DAIRY ==
    <<<<"m", "i", "l", "k">>,
      <<"c", "r", "e", "a", "m">>,
      <<"b", "u", "t", "t", "e", "r">>,
      <<"c", "h", "e", "e", "s", "e">>,
      <<"y", "o", "g", "u", "r", "t">>,
      <<"s", "o", "u", "r", " ", "c", "r", "e", "a", "m">>,
      <<"c", "o", "t", "t", "a", "g", "e", " ", "c", "h", "e", "e", "s", "e">>,
      <<"r", "i", "c", "o", "t", "t", "a">>,
      <<"m", "o", "z", "z", "a", "r", "e", "l", "l", "a">>,
      <<"c", "h", "e", "d", "d", "a", "r">>,
      <<"p", "a", "r", "m", "e", "s", "a", "n">>,
      <<"f", "e", "t", "a">>,
      <<"g", "o", "a", "t", " ", "c", "h", "e", "e", "s", "e">>,
      <<"c", "r", "e", "a", "m", " ", "c", "h", "e", "e", "s", "e">>,
      <<"m", "a", "s", "c", "a", "r", "p", "o", "n", "e">>,
      <<"h", "e", "a", "v", "y", " ", "c", "r", "e", "a", "m">>,
      <<"h", "a", "l", "f", " ", "a", "n", "d", " ", "h", "a", "l", "f">>,
      <<"b", "u", "t", "t", "e", "r", "m", "i", "l", "k">>>>

FRUITS ==
    <<<<"a", "p", "p", "l", "e">>,
      <<"b", "a", "n", "a", "n", "a">>,
      <<"o", "r", "a", "n", "g", "e">>,
      <<"l", "e", "m", "o", "n">>,
      <<"l", "i", "m", "e">>,
      <<"s", "t", "r", "a", "w", "b", "e", "r", "r", "y">>,
      <<"b", "l", "u", "e", "b", "e", "r", "r", "y">>,
      <<"r", "a", "s", "p", "b", "e", "r", "r", "y">>,
      <<"b", "l", "a", "c", "k", "b", "e", "r", "r", "y">>,
      <<"g", "r", "a", "p", "e", "s">>,
      <<"p", "i", "n", "e", "a", "p", "p", "l", "e">>,
      <<"m", "a", "n", "g", "o">>,
      <<"p", "e", "a", "c", "h">>,
      <<"p", "e", "a", "r">>,
      <<"p", "l", "u", "m">>,
      <<"c", "h", "e", "r", "r", "y">>,
      <<"w", "a", "t", "e", "r", "m", "e", "l", "o", "n">>,
      <<"c", "a", "n", "t", "a", "l", "o", "u", "p", "e">>,
      <<"k", "i", "w", "i">>,
      <<"p", "o", "m", "e", "g", "r", "a", "n", "a", "t", "e">>,
      <<"c", "r", "a", "n", "b", "e", "r", "r", "y">>,
      <<"c", "o", "c", "o", "n", "u", "t">>>>

NUTS_SEEDS ==
    <<<<"a", "l", "m", "o", "n", "d", "s">>,
      <<"w", "a", "l", "n", "u", "t", "s">>,
      <<"p", "e", "c", "a", "n", "s">>,
      <<"p", "e", "a", "n", "u", "t", "s">>,
      <<"c", "a", "s", "h", "e", "w", "s">>,
      <<"p", "i", "s", "t", "a", "c", "h", "i", "o", "s">>,
      <<"s", "u", "n", "f", "l", "o", "w", "e", "r", " ", "s", "e", "e", "d", "s">>,
      <<"p", "u", "m", "p", "k", "i", "n", " ", "s", "e", "e", "d", "s">>,
      <<"s", "e", "s", "a", "m", "e", " ", "s", "e", "e", "d", "s">>,
      <<"c", "h", "i", "a", " ", "s", "e", "e", "d", "s">>,
      <<"f", "l", "a", "x", " ", "s", "e", "e", "d", "s">>,
      <<"p", "i", "n", "e", " ", "n", "u", "t", "s">>>>

PANTRY_STAPLES ==
    <<<<"o", "l", "i", "v", "e", " ", "o", "i", "l">>,
      <<"v", "e", "g", "e", "t", "a", "b", "l", "e", " ", "o", "i", "l">>,
      <<"f", "l", "o", "u", "r">>,
      <<"s", "u", "g", "a", "r">>,
      <<"b", "r", "o", "w", "n", " ", "s", "u", "g", "a", "r">>,
      <<"h", "o", "n", "e", "y">>,
      <<"m", "a", "p", "l", "e", " ", "s", "y", "r", "u", "p">>,
      <<"v", "i", "n", "e", "g", "a", "r">>,
      <<"b", "a", "l", "s", "a", "m", "i", "c", " ", "v", "i", "n", "e", "g", "a", "r">>,
      <<"s", "o", "y", " ", "s", "a", "u", "c", "e">>,
      <<"w", "o", "r", "c", "e", "s", "t", "e", "r", "s", "h", "i", "r", "e", " ", "s", "a", "u", "c", "e">>,
      <<"h", "o", "t", " ", "s", "a", "u", "c", "e">>,
      <<"m", "u", "s", "t", "a", "r", "d">>,
      <<"k", "e", "t", "c", "h", "u", "p">>,
      <<"m", "a", "y", "o", "n", "n", "a", "i", "s", "e">>,
      <<"b", "r", "o", "t", "h">>,
      <<"c", "h", "i", "c", "k", "e", "n", " ", "b", "r", "o", "t", "h">>,
      <<"v", "e", "g", "e", "t", "a", "b", "l", "e", " ", "b", "r", "o", "t", "h">>>>

CANNED_PROCESSED ==
    <<<<"t", "o", "m", "a", "t", "o", " ", "s", "a", "u", "c", "e">>,
      <<"t", "o", "m", "a", "t", "o", " ", "p", "a", "s", "t", "e">>,
      <<"c", "o", "c", "o", "n", "u", "t", " ", "m", "i", "l", "k">>,
      <<"c", "a", "n", "n", "e", "d", " ", "b", "e", "a", "n", "s">>,
      <<"c", "a", "n", "n", "e", "d", " ", "t", "o", "m", "a", "t", "o", "e", "s">>,
      <<"o", "l", "i", "v", "e", "s">>,
      <<"c", "a", "p", "e", "r", "s">>,
      <<"p", "i", "c", "k", "l", "e", "s">>,
      <<"d", "r", "i", "e", "d", " ", "c", "r", "a", "n", "b", "e", "r", "r", "i", "e", "s">>,
      <<"r", "a", "i", "s", "i", "n", "s">>>>

\* the flattened list
COMMON_INGREDIENTS ==
    PROTEIN \o VEGETABLE \o HERB \o SPICE \o GRAIN \o DAIRY
    \o FRUITS \o NUTS_SEEDS \o PANTRY_STAPLES \o CANNED_PROCESSED

\* a JavaScript number that is a quotient of two small integers
Ratio(n, d) == [num |-> n, den |-> d]
RatioGreater(a, b) == a.num * b.den > b.num * a.den
RatioEqual(a, b) == a.num * b.den = b.num * a.den

Min3(a, b, c) == IF a <= b /\ a <= c THEN a ELSE IF b <= c THEN b ELSE c

\* row j of the matrix, cell by cell; row[i + 1] is matrix[j][i]
RECURSIVE LevenshteinCells(_, _, _, _, _)
LevenshteinCells(row, prev, str1, c, i) ==
    IF i > Len(str1) THEN row
    ELSE LET indicator == IF str1[i] = c THEN 0 ELSE 1
             cell == Min3(row[i] + 1, prev[i + 1] + 1, prev[i] + indicator)
         IN LevenshteinCells(Append(row, cell), prev, str1, c, i + 1)

\* the rows of the matrix from row j on, given row j - 1 (a row is never empty)
RECURSIVE LevenshteinRows(_, _, _, _)
LevenshteinRows(prev, str1, str2, j) ==
    IF prev = <<>> \/ j > Len(str2) THEN prev
    ELSE LevenshteinRows(LevenshteinCells(<<j>>, prev, str1, str2[j], 1), str1, str2, j + 1)

\* levenshteinDistance(str1, str2) = matrix[str2.length][str1.length]
LevenshteinDistance(str1, str2) ==
    LevenshteinRows([i \in 1..(Len(str1) + 1) |-> i - 1], str1, str2, 1)[Len(str1) + 1]

CalculateSimilarity(str1, str2) ==
    IF str1 = str2 THEN Ratio(1, 1)
    ELSE LET longer == IF Len(str1) > Len(str2) THEN str1 ELSE str2
             shorter == IF Len(str1) > Len(str2) THEN str2 ELSE str1
         IN IF Len(longer) = 0 THEN Ratio(1, 1)
            ELSE Ratio(Len(longer) - LevenshteinDistance(longer, shorter), Len(longer))

ScoreImprovesOrTies(score, bestScore) ==
    ~RatioGreater(bestScore, score) /\ RatioGreater(score, Ratio(6, 10))

\* score > bestScore && score > 0.6
ScoreImproves(score, bestScore) ==
    RatioGreater(score, bestScore) /\ RatioGreater(score, Ratio(6, 10))

\* the loop over COMMON_INGREDIENTS, run over the entries lo..hi in order; the
\* range is halved and the first half evaluated before the second, so that the
\* evaluation does not nest once per entry (a score's denominator is never 0)
RECURSIVE BestMatchOver(_, _, _, _)
BestMatchOver(cleanInput, lo, hi, best) ==
    IF lo > hi THEN best
    ELSE IF lo = hi
    THEN LET score == CalculateSimilarity(cleanInput, COMMON_INGREDIENTS[lo])
         IN IF ScoreImproves(score, best.bestScore)
            THEN [bestMatch |-> COMMON_INGREDIENTS[lo], bestScore |-> score]
            ELSE best
    ELSE LET mid == (lo + hi) \div 2
             first == BestMatchOver(cleanInput, lo, mid, best)
         IN IF first.bestScore.den = 0 THEN first
            ELSE BestMatchOver(cleanInput, mid + 1, hi, first)

\* an IngredientValidation; hasSuggestion is false when the property is absent
IngredientValidation(isValid, hasSuggestion, suggestion, confidence) ==
    [isValid |-> isValid, hasSuggestion |-> hasSuggestion,
     suggestion |-> suggestion, confidence |-> confidence]

FindClosestIngredient(input) ==
    LET cleanInput == SanitizeInput(input)
        best == BestMatchOver(cleanInput, 1, Len(COMMON_INGREDIENTS),
                              [bestMatch |-> <<>>, bestScore |-> Ratio(0, 1)])
    IN IF \E i \in 1..Len(COMMON_INGREDIENTS) : COMMON_INGREDIENTS[i] = cleanInput
       THEN IngredientValidation(TRUE, FALSE, <<>>, Ratio(1, 1))
       ELSE IF best.bestMatch # <<>>
       THEN IngredientValidation(FALSE, TRUE, best.bestMatch, best.bestScore)
       ELSE IF \E k \in 1..Len(BLACKLISTED_ITEMS) :
                   \/ Includes(cleanInput, BLACKLISTED_ITEMS[k])
                   \/ Includes(BLACKLISTED_ITEMS[k], cleanInput)
       THEN IngredientValidation(FALSE, FALSE, <<>>, Ratio(0, 1))
       ELSE IngredientValidation(TRUE, FALSE, <<>>, Ratio(3, 10))

NotMatched == [done |-> FALSE] @@ IngredientValidation(FALSE, FALSE, <<>>, Ratio(0, 1))

IdleMatcher == [input |-> <<>>, result |-> NotMatched]

IdleTitleRun == [content |-> <<>>, done |-> FALSE, result |-> [set |-> FALSE, title |-> <<>>]]

-----------------------------------------------------------------------------
(* The autocomplete handler, GET of /api/ingredients/validate.             *)

MSG_SLOW_DOWN == "Too many requests. Please slow down."

\* the table of getIngredientCategory, in the order of Object.entries
Categories ==
    <<[category |-> "proteins",
       items |-> <<<<"c", "h", "i", "c", "k", "e", "n">>, <<"b", "e", "e", "f">>, <<"p", "o", "r", "k">>, <<"f", "i", "s", "h">>, <<"s", "a", "l", "m", "o", "n">>, <<"t", "u", "n", "a">>, <<"s", "h", "r", "i", "m", "p">>, <<"e", "g", "g", "s">>, <<"t", "o", "f", "u">>, <<"b", "e", "a", "n", "s">>, <<"l", "e", "n", "t", "i", "l", "s">>>>],
      [category |-> "vegetables",
       items |-> <<<<"o", "n", "i", "o", "n">>, <<"g", "a", "r", "l", "i", "c">>, <<"t", "o", "m", "a", "t", "o">>, <<"p", "o", "t", "a", "t", "o">>, <<"c", "a", "r", "r", "o", "t">>, <<"c", "e", "l", "e", "r", "y">>, <<"b", "e", "l", "l", " ", "p", "e", "p", "p", "e", "r">>, <<"b", "r", "o", "c", "c", "o", "l", "i">>, <<"s", "p", "i", "n", "a", "c", "h">>, <<"k", "a", "l", "e">>>>],
      [category |-> "herbs",
       items |-> <<<<"b", "a", "s", "i", "l">>, <<"o", "r", "e", "g", "a", "n", "o">>, <<"t", "h", "y", "m", "e">>, <<"r", "o", "s", "e", "m", "a", "r", "y">>, <<"p", "a", "r", "s", "l", "e", "y">>, <<"c", "i", "l", "a", "n", "t", "r", "o">>, <<"d", "i", "l", "l">>, <<"s", "a", "g", "e">>, <<"m", "i", "n", "t">>, <<"c", "h", "i", "v", "e", "s">>>>],
      [category |-> "spices",
       items |-> <<<<"s", "a", "l", "t">>, <<"p", "e", "p", "p", "e", "r">>, <<"p", "a", "p", "r", "i", "k", "a">>, <<"c", "u", "m", "i", "n">>, <<"c", "o", "r", "i", "a", "n", "d", "e", "r">>, <<"t", "u", "r", "m", "e", "r", "i", "c">>, <<"g", "i", "n", "g", "e", "r">>, <<"c", "i", "n", "n", "a", "m", "o", "n">>, <<"n", "u", "t", "m", "e", "g">>>>],
      [category |-> "dairy",
       items |-> <<<<"m", "i", "l", "k">>, <<"c", "r", "e", "a", "m">>, <<"y", "o", "g", "u", "r", "t">>, <<"c", "h", "e", "e", "s", "e">>, <<"b", "u", "t", "t", "e", "r">>>>],
      [category |-> "fruits",
       items |-> <<<<"a", "p", "p", "l", "e">>, <<"b", "a", "n", "a", "n", "a">>, <<"o", "r", "a", "n", "g", "e">>, <<"l", "e", "m", "o", "n">>, <<"l", "i", "m", "e">>, <<"s", "t", "r", "a", "w", "b", "e", "r", "r", "y">>, <<"b", "l", "u", "e", "b", "e", "r", "r", "y">>>>],
      [category |-> "pantry",
       items |-> <<<<"o", "l", "i", "v", "e", " ", "o", "i", "l">>, <<"f", "l", "o", "u", "r">>, <<"s", "u", "g", "a", "r">>, <<"r", "i", "c", "e">>, <<"p", "a", "s", "t", "a">>, <<"v", "i", "n", "e", "g", "a", "r">>, <<"s", "o", "y", " ", "s", "a", "u", "c", "e">>>>]>>

RECURSIVE CategoryFrom(_, _)
CategoryFrom(ingredient, i) ==
    IF i > Len(Categories) THEN "other"
    ELSE IF \E k \in 1..Len(Categories[i].items) :
               Categories[i].items[k] = ToLowerCase(ingredient)
    THEN Categories[i].category
    ELSE CategoryFrom(ingredient, i + 1)

GetIngredientCategory(ingredient) == CategoryFrom(ingredient, 1)

ToUpperCase(str) ==
    [i \in 1..Len(str) |->
        IF \E k \in 1..Len(LowerCaseLetters) : LowerCaseLetters[k] = str[i]
        THEN UpperCaseLetters[CHOOSE k \in 1..Len(LowerCaseLetters) : LowerCaseLetters[k] = str[i]]
        ELSE str[i]]

\* str.charAt(0).toUpperCase() + str.slice(1)
CapitalizeFirst(str) ==
    IF str = <<>> THEN <<>> ELSE ToUpperCase(<<str[1]>>) \o Tail(str)

\* the vocabulary entries that contain the query or are contained in it
MatchingIngredients(query) ==
    SelectSeq(COMMON_INGREDIENTS,
              LAMBDA ingredient : \/ Includes(ToLowerCase(ingredient), query)
                                  \/ Includes(query, ToLowerCase(ingredient)))

\* Array.prototype.slice(0, n)
Slice0(seq, n) == SubSeq(seq, 1, IF Len(seq) < n THEN Len(seq) ELSE n)

SuggestionsUnlimited(query) ==
    LET matches == MatchingIngredients(query)
    IN [i \in 1..Len(matches) |->
          [value |-> matches[i],
           label |-> CapitalizeFirst(matches[i]),
           category |-> GetIngredientCategory(matches[i])]]

\* .filter(...).slice(0, 10).map(...)
Suggestions(query) ==
    LET matches == Slice0(MatchingIngredients(query), 10)
    IN [i \in 1..Len(matches) |->
          [value |-> matches[i],
           label |-> CapitalizeFirst(matches[i]),
           category |-> GetIngredientCategory(matches[i])]]

\* the answer to an autocomplete request the limiter rejected
SlowDown(rateLimitResult) ==
    CreateErrorResponse(MSG_SLOW_DOWN, 429,
        [retryAfter |-> JsonValue(rateLimitResult.retryAfter),
         resetTime |-> rateLimitResult.resetTime])

\* createSuccessResponse(data)
CreateSuccessResponse(data) == [status |-> 200, success |-> TRUE, data |-> data]

\* the GET request being handled: where it is, its lower-cased query, its answer
IdleAutocomplete ==
    [pc |-> "idle", query |-> <<>>, rl |-> NoResult, response |-> NoResponse]

-----------------------------------------------------------------------------
(* IngredientInput: the input field, its two debounced calls, and          *)
(* addIngredient.  A validation result is kept without its alternatives and *)
(* category, which the component never reads.                              *)

DEBOUNCE_DELAY == 250

\* validationResult === null
NoValidation ==
    [isNull |-> TRUE, isValid |-> FALSE, hasSuggestion |-> FALSE, suggestion |-> <<>>,
     confidence |-> Ratio(0, 1), errors |-> <<>>]

ValidationResult(isValid, hasSuggestion, suggestion, confidence, errors) ==
    [isNull |-> FALSE, isValid |-> isValid, hasSuggestion |-> hasSuggestion,
     suggestion |-> suggestion, confidence |-> confidence, errors |-> errors]

\* validateIngredientOffline(ingredient)
ValidateIngredientOffline(ingredient) ==
    LET cleaned == Trim(ToLowerCase(ingredient))
        suggestions == Slice0(SelectSeq(COMMON_INGREDIENTS,
                                        LAMBDA ing : Includes(ing, cleaned) \/ Includes(cleaned, ing)),
                              3)
    IN IF \E k \in 1..Len(BLACKLISTED_ITEMS) : Includes(cleaned, BLACKLISTED_ITEMS[k])
       THEN ValidationResult(FALSE, FALSE, <<>>, Ratio(0, 1), <<MSG_NOT_INGREDIENT>>)
       ELSE IF \E i \in 1..Len(COMMON_INGREDIENTS) : COMMON_INGREDIENTS[i] = cleaned
       THEN ValidationResult(TRUE, FALSE, <<>>, Ratio(1, 1), <<>>)
       ELSE ValidationResult(Len(cleaned) > 0 /\ Len(cleaned) <= 50,
                             suggestions # <<>>,
                             IF suggestions # <<>> THEN suggestions[1] ELSE <<>>,
                             IF Len(suggestions) > 0 THEN Ratio(5, 10) ELSE Ratio(3, 10),
                             IF Len(cleaned) = 0 THEN <<"Ingredient cannot be empty">>
                             ELSE IF Len(cleaned) > 50 THEN <<"Ingredient name too long">>
                             ELSE <<>>)

\* getSuggestionsOffline(query)
GetSuggestionsOffline(query) ==
    LET matches == Slice0(MatchingIngredients(ToLowerCase(query)), 10)
    IN [i \in 1..Len(matches) |->
          [value |-> matches[i],
           label |-> CapitalizeFirst(matches[i]),
           category |-> "ingredient"]]

\* POST of /api/ingredients/validate for a request the limiter allows: whether
\* the body passes validateRequestSchema, and the result sent back
PostAccepts(ingredient) == Len(ingredient) >= 1 /\ Len(ingredient) <= 50

PostResult(ingredient) ==
    LET issues == IngredientIssues(ingredient, 0)
        smartValidation == FindClosestIngredient(ingredient)
    IN ValidationResult(issues = <<>> /\ smartValidation.isValid,
                        smartValidation.hasSuggestion,
                        smartValidation.suggestion,
                        smartValidation.confidence,
                        [i \in 1..Len(issues) |-> issues[i].message])

\* what the user types
TypedValues ==
    {<<"t">>, <<"t", "o", "m", "a", "t", "o", "e">>, <<"b", "a", "s", "i", "l">>, <<" ">>}

\* the strings the component's calls are made with: what is typed, and the
\* vocabulary entries a suggestion can name; the answers for them, computed once
CallArguments ==
    TypedValues \cup {ToLowerCase(Trim(v)) : v \in TypedValues}
    \cup {COMMON_INGREDIENTS[i] : i \in 1..Len(COMMON_INGREDIENTS)}

OfflineValidations == [v \in CallArguments |-> ValidateIngredientOffline(v)]
OfflineSuggestions == [v \in TypedValues |-> GetSuggestionsOffline(v)]
PostResults == [v \in TypedValues |-> PostResult(v)]
GetResults == [v \in TypedValues |-> Suggestions(ToLowerCase(v))]

\* addIngredient(ingredient)
AddIngredient(d, ingredient) ==
    LET trimmed == ToLowerCase(Trim(ingredient))
        validation == IF ~d.validationResult.isNull THEN d.validationResult
                      ELSE OfflineValidations[trimmed]
    IN IF trimmed = <<>> THEN d
       ELSE IF \E i \in 1..Len(d.ingredients) : d.ingredients[i] = trimmed THEN d
       ELSE IF Len(d.ingredients) >= d.maxIngredients THEN d
       ELSE IF ~validation.isValid THEN d
       ELSE [d EXCEPT !.ingredients = Append(@, trimmed),
                      !.inputValue = <<>>,
                      !.suggestions = <<>>,
                      !.showSuggestions = FALSE,
                      !.validationResult = NoValidation]

\* the component after mounting, with the bookkeeping of its timers: the
\* pending setTimeout calls, the fetches in flight, and for each
\* handleInputChange call the time it was made
IdleInput ==
    [now |-> 0,
     ingredients |-> <<>>,
     maxIngredients |-> MAX_INGREDIENTS,
     inputValue |-> <<>>,
     suggestions |-> <<>>,
     validationResult |-> NoValidation,
     isLoadingSuggestions |-> FALSE,
     isValidating |-> FALSE,
     showSuggestions |-> FALSE,
     selectedSuggestionIndex |-> -1,
     changeTimes |-> <<>>,
     timers |-> <<>>,
     inflight |-> <<>>,
     issued |-> <<>>,
     lastOp |-> "none"]

InitAuxIdle ==
    /\ matcher = IdleMatcher
    /\ titleRun = IdleTitleRun
    /\ areq = IdleAutocomplete
    /\ inp = IdleInput

-----------------------------------------------------------------------------
(* The limiter on its own: one caller, a clock, and the two consume calls. *)

\* rlLast: the last call's kind, its rank k in its window, whether it opened a new
\* window after an expired one (renewed) and whether that expired window had
\* rejected consumes (prevRejected), and the RateLimitResult it returned
NoCall == [op |-> "none", k |-> 0, renewed |-> FALSE, prevRejected |-> FALSE,
           result |-> NoResult]

\* The fixed window of an action as the specification defines it: it starts with
\* the first consume and lasts D seconds; a consume at or after its end starts
\* the next one.  w = [start, calls]; calls = 0 when no window has started.
WindowOpen(w, duration, t) == w.calls > 0 /\ t < w.start + duration * 1000

WindowAfter(w, duration, t) ==
    IF WindowOpen(w, duration, t)
    THEN [start |-> w.start, calls |-> w.calls + 1]
    ELSE [start |-> t, calls |-> 1]

InitLimiter ==
    /\ now = 0
    /\ advances = 0
    /\ limiters = [l \in LimiterNames |-> EmptyStore]
    /\ caller \in Callers
    /\ rlLast = NoCall
    /\ rlWindow = [a \in {"generation", "validation"} |-> [start |-> 0, calls |-> 0]]
    /\ InitServerIdle
    /\ InitClientIdle
    /\ InitAuxIdle
    /\ InitValidationIdle

AdvanceClock ==
    /\ advances < MaxAdvances
    /\ \E d \in TimeSteps : now' = now + d
    /\ advances' = advances + 1
    /\ UNCHANGED <<limiters, caller, rlLast, rlWindow, serverVars, clientVars, validationVars, auxVars>>

CallConsumeRateLimit ==
    LET w == WindowAfter(rlWindow["generation"], GenerationDuration, now)
        r == ConsumeRateLimit(caller.id, caller.auth, limiters, now)
    IN /\ w.calls <= LimitOf(caller) + MaxOver
       /\ limiters' = r.limiters
       /\ rlWindow' = [rlWindow EXCEPT !["generation"] = w]
       /\ rlLast' = [op |-> "generation", k |-> w.calls,
                     renewed |-> w.calls = 1 /\ rlWindow["generation"].calls > 0,
                     prevRejected |-> w.calls = 1
                                      /\ rlWindow["generation"].calls > LimitOf(caller),
                     result |-> r.result]
       /\ UNCHANGED <<now, advances, caller, serverVars, clientVars, validationVars, auxVars>>

CallConsumeValidationRateLimit ==
    LET w == WindowAfter(rlWindow["validation"], ValidationDuration, now)
        r == ConsumeValidationRateLimit(caller.id, limiters, now)
    IN /\ w.calls <= VALIDATION_REQUESTS_PER_MINUTE + MaxOver
       /\ limiters' = r.limiters
       /\ rlWindow' = [rlWindow EXCEPT !["validation"] = w]
       /\ rlLast' = [op |-> "validation", k |-> w.calls,
                     renewed |-> w.calls = 1 /\ rlWindow["validation"].calls > 0,
                     prevRejected |-> w.calls = 1
                                      /\ rlWindow["validation"].calls
                                            > VALIDATION_REQUESTS_PER_MINUTE,
                     result |-> r.result]
       /\ UNCHANGED <<now, advances, caller, serverVars, clientVars, validationVars, auxVars>>

NextLimiter ==
    \/ AdvanceClock
    \/ CallConsumeRateLimit
    \/ CallConsumeValidationRateLimit

SpecLimiter == InitLimiter /\ [][NextLimiter]_vars

-----------------------------------------------------------------------------
(* The handler's steps.                                                    *)

\* safeEnqueue(data): controller.enqueue throws unless the stream is open
SafeEnqueue(s, frame) ==
    IF ~s.isControllerClosed
    THEN IF s.controller = "open"
         THEN [ok |-> TRUE, s |-> [s EXCEPT !.frames = Append(@, frame)]]
         ELSE [ok |-> FALSE, s |-> [s EXCEPT !.isControllerClosed = TRUE]]
    ELSE [ok |-> FALSE, s |-> s]

\* safeClose(): controller.close throws unless the stream is open
SafeClose(s) ==
    IF ~s.isControllerClosed
    THEN [s EXCEPT !.controller = IF @ = "open" THEN "closed" ELSE @,
                   !.isControllerClosed = TRUE,
                   !.closeCalls = @ + 1]
    ELSE s

\* if (safeEnqueue(frame)) safeClose();
EnqueueThenClose(s, frame) ==
    LET e == SafeEnqueue(s, frame) IN IF e.ok THEN SafeClose(e.s) ELSE e.s

OnTextPrepends(s, text) == [s EXCEPT !.fullResponse = text \o @, !.texts = @ + 1]

\* stream.on('text')
OnText(s, text) == [s EXCEPT !.fullResponse = @ \o text, !.texts = @ + 1]

\* stream.on('end')
OnEnd(s) == EnqueueThenClose(s, CompleteFrame(s.fullResponse))

OnErrorLeavesOpen(s, error) == SafeEnqueue(s, ErrorFrame(MSG_GENERATE_FAILED)).s

OnErrorForwardsDetail(s, error) == EnqueueThenClose(s, ErrorFrame(error))

\* stream.on('error', (error) => ...)
OnError(s, error) == EnqueueThenClose(s, ErrorFrame(MSG_GENERATE_FAILED))

OnStreamCallThrowsSilently(s, error) == s

\* catch (error) around anthropic.messages.stream(...)
OnStreamCallThrows(s, error) == EnqueueThenClose(s, ErrorFrame(MSG_CONNECT_FAILED))

Consumed(lims, c) ==
    LET store == lims[IF c.auth THEN "rateLimiterUser" ELSE "rateLimiterGuest"]
        key == <<"recipe_generation", c.id>>
    IN IF key \in DOMAIN store THEN store[key].value ELSE 0

\* A request arrives; the handler runs up to `await getUserFromRequest(request)`.
Receive(r) ==
    /\ sreq[r].pc = "idle"
    /\ Consumed(limiters, caller) + Cardinality({q \in ServerSlots : sreq[q].pc = "auth"})
          < LimitOf(caller) + MaxOver
    /\ \E b \in Bodies : sreq' = [sreq EXCEPT ![r] = [IdleRequest EXCEPT !.pc = "auth", !.body = b]]
    /\ UNCHANGED <<limiterVars, granted, clientVars, validationVars, auxVars>>

\* `await consumeRateLimit(identifier, !!user)` and the 429 answer, up to
\* `await request.json()`.
RateCheck(r) ==
    LET c == ConsumeRateLimit(caller.id, caller.auth, limiters, now)
    IN /\ sreq[r].pc = "auth"
       /\ limiters' = c.limiters
       /\ granted' = IF c.result.allowed THEN granted + 1 ELSE granted
       /\ sreq' = [sreq EXCEPT ![r] =
                     IF c.result.allowed
                     THEN [@ EXCEPT !.pc = "body", !.rl = c.result]
                     ELSE [@ EXCEPT !.pc = "done", !.rl = c.result, !.status = 429,
                                    !.response = RateLimited(c.result)]]
       /\ UNCHANGED <<now, advances, caller, rlLast, rlWindow, clientVars, validationVars, auxVars>>

\* The body is read and validated; a valid request constructs the
\* ReadableStream, whose start() calls anthropic.messages.stream(...) and
\* registers the handlers, and returns the streaming Response.  A body that
\* is not JSON makes request.json() throw into the outer catch.
ParseAndValidate(r) ==
    /\ sreq[r].pc = "body"
    /\ LET validation == SafeParse(sreq[r].body) IN
       \/ /\ ~sreq[r].body.json
          /\ sreq' = [sreq EXCEPT ![r] =
                        [@ EXCEPT !.pc = "done", !.status = 500,
                                  !.response = InternalError("Unexpected token")]]
       \/ /\ sreq[r].body.json /\ ~validation.success
          /\ sreq' = [sreq EXCEPT ![r] =
                        [@ EXCEPT !.pc = "done", !.status = 400,
                                  !.response = InvalidRequest(validation.issues, sreq[r].rl)]]
       \/ /\ sreq[r].body.json /\ validation.success
          /\ \E throws \in BOOLEAN : \E e \in ProviderErrors :
               LET opened == [sreq[r] EXCEPT !.pc = "streaming", !.status = 200,
                                             !.controller = "open",
                                             !.providerCalls = @ + 1]
               IN sreq' = [sreq EXCEPT ![r] =
                             IF throws
                             THEN [OnStreamCallThrows(opened, e) EXCEPT
                                      !.provider = "failed", !.errorDetail = e]
                             ELSE [opened EXCEPT !.provider = "open"]]
    /\ UNCHANGED <<limiterVars, granted, clientVars, validationVars, auxVars>>

ProviderText(r) ==
    /\ sreq[r].pc = "streaming" /\ sreq[r].provider = "open"
    /\ sreq[r].texts < MaxTexts
    /\ \E t \in Texts : sreq' = [sreq EXCEPT ![r] = [OnText(@, t) EXCEPT !.chunks = Append(@, t)]]
    /\ UNCHANGED <<limiterVars, granted, clientVars, validationVars, auxVars>>

ProviderEnd(r) ==
    /\ sreq[r].pc = "streaming" /\ sreq[r].provider \in {"open", "errored"}
    /\ sreq' = [sreq EXCEPT ![r] = [OnEnd(@) EXCEPT !.provider = "ended"]]
    /\ UNCHANGED <<limiterVars, granted, clientVars, validationVars, auxVars>>

ProviderError(r) ==
    /\ sreq[r].pc = "streaming" /\ sreq[r].provider = "open"
    /\ \E e \in ProviderErrors :
          sreq' = [sreq EXCEPT ![r] = [OnError(@, e) EXCEPT !.provider = "errored",
                                                            !.errorDetail = e]]
    /\ UNCHANGED <<limiterVars, granted, clientVars, validationVars, auxVars>>

\* The client goes away: the response stream is cancelled by its consumer.
ClientCancel(r) ==
    /\ sreq[r].pc = "streaming" /\ sreq[r].controller = "open"
    /\ sreq' = [sreq EXCEPT ![r] = [@ EXCEPT !.controller = "cancelled"]]
    /\ UNCHANGED <<limiterVars, granted, clientVars, validationVars, auxVars>>

\* The request is over and its slot is free for the next one.
Release(r) ==
    /\ \/ sreq[r].pc = "done"
       \/ sreq[r].pc = "streaming" /\ sreq[r].provider \in {"failed", "errored", "ended"}
    /\ sreq' = [sreq EXCEPT ![r] = IdleRequest]
    /\ UNCHANGED <<limiterVars, granted, clientVars, validationVars, auxVars>>

InitServer ==
    /\ now = 0
    /\ advances = 0
    /\ limiters = [l \in LimiterNames |-> EmptyStore]
    /\ caller \in Callers
    /\ rlLast = NoCall
    /\ rlWindow = [a \in {"generation", "validation"} |-> [start |-> 0, calls |-> 0]]
    /\ InitServerIdle
    /\ InitClientIdle
    /\ InitAuxIdle
    /\ InitValidationIdle

NextServer ==
    \E r \in ServerSlots :
        \/ Receive(r)
        \/ RateCheck(r)
        \/ ParseAndValidate(r)
        \/ ProviderText(r)
        \/ ProviderEnd(r)
        \/ ProviderError(r)
        \/ ClientCancel(r)
        \/ Release(r)

SpecServer == InitServer /\ [][NextServer]_vars

-----------------------------------------------------------------------------
(* The response stream as the consumer sees it: `data: <json>\n\n` frames, *)
(* cut into reads by the transport.  A frame is a sequence of pieces of     *)
(* text; the JSON text of an event is "{" body "}".                         *)

NoEvent == [type |-> "none", content |-> <<>>, message |-> ""]

Piece(text) == [t |-> text, ev |-> NoEvent]
JsonBody(ev) == [t |-> "json", ev |-> ev]

\* a frame whose JSON text lacks its closing brace
MalformedFrame == [type |-> "malformed", content |-> <<>>, message |-> ""]

\* encoder.encode(`data: ${JSON.stringify(event)}\n\n`)
FrameBytes(f) ==
    IF f.type = "malformed"
    THEN <<Piece("data: "), Piece("{"), JsonBody(f), Piece("\n"), Piece("\n")>>
    ELSE <<Piece("data: "), Piece("{"), JsonBody(f), Piece("}"), Piece("\n"), Piece("\n")>>

RECURSIVE StreamBytes(_)
StreamBytes(frames) ==
    IF frames = <<>> THEN <<>> ELSE FrameBytes(Head(frames)) \o StreamBytes(Tail(frames))

ClientFrames ==
    {CompleteFrame(c) : c \in Contents} \cup {ErrorFrame(MSG_GENERATE_FAILED), MalformedFrame}

Streams == UNION {[1..n -> ClientFrames] : n \in 0..MaxFrames}

\* chunk.split('\n')
RECURSIVE SplitLines(_)
SplitLines(chunk) ==
    IF \A i \in 1..Len(chunk) : chunk[i].t # "\n"
    THEN <<chunk>>
    ELSE LET i == CHOOSE j \in 1..Len(chunk) :
                     /\ chunk[j].t = "\n"
                     /\ \A k \in 1..(j - 1) : chunk[k].t # "\n"
         IN <<SubSeq(chunk, 1, i - 1)>> \o SplitLines(SubSeq(chunk, i + 1, Len(chunk)))

\* line.startsWith('data: ')
StartsWithData(line) == line # <<>> /\ line[1].t = "data: "

\* JSON.parse(line.slice(6)): the event, or a SyntaxError
JsonParse(text) ==
    IF /\ Len(text) = 3
       /\ text[1].t = "{"
       /\ text[2].t = "json" /\ text[2].ev.type # "malformed"
       /\ text[3].t = "}"
    THEN [ok |-> TRUE, ev |-> text[2].ev]
    ELSE [ok |-> FALSE, ev |-> NoEvent]

RECURSIVE EventsUntilParseFailure(_)
EventsUntilParseFailure(lines) ==
    IF lines = <<>> THEN <<>>
    ELSE LET line == Head(lines)
             parsed == JsonParse(Tail(line))
         IN IF StartsWithData(line) /\ ~parsed.ok THEN <<>>
            ELSE (IF StartsWithData(line) THEN <<parsed.ev>> ELSE <<>>)
                 \o EventsUntilParseFailure(Tail(lines))

\* the events the line loop dispatches for one read, in order
RECURSIVE EventsOfLines(_)
EventsOfLines(lines) ==
    IF lines = <<>> THEN <<>>
    ELSE LET line == Head(lines)
             parsed == JsonParse(Tail(line))
         IN (IF StartsWithData(line) /\ parsed.ok THEN <<parsed.ev>> ELSE <<>>)
            \o EventsOfLines(Tail(lines))

ParseChunk(chunk) == EventsOfLines(SplitLines(chunk))

-----------------------------------------------------------------------------
(* Title extraction of the complete handler.                               *)

\* the text from position i to the end of its line
ToEndOfLine(str, i) ==
    LET ends == {j \in i..Len(str) : str[j] = "\n"}
        stop == IF ends = {} THEN Len(str) + 1
                ELSE CHOOSE j \in ends : \A k \in ends : j <= k
    IN SubSeq(str, i, stop - 1)

Least(S) == CHOOSE x \in S : \A y \in S : x <= y
Greatest(S) == CHOOSE x \in S : \A y \in S : x >= y

\* content.match(/# (.+)/) : positions where "# " is followed by a character of the line
MarkdownMatches(str) ==
    {i \in 1..(Len(str) - 2) : str[i] = "#" /\ str[i + 1] = " " /\ str[i + 2] # "\n"}

\* content.match(/^1\.\s*(.+?)(?:\n|$)/m) : for a line starting with "1.", where the
\* captured text starts (whitespace, newlines included, is skipped greedily)
NumberedStarts(str) ==
    {p \in 1..(Len(str) - 1) :
        /\ p = 1 \/ str[p - 1] = "\n"
        /\ str[p] = "1" /\ str[p + 1] = "."
        /\ \E j \in (p + 2)..Len(str) :
              /\ str[j] # "\n"
              /\ \A k \in (p + 2)..(j - 1) : IsSpace(str[k])}

NumberedCapture(str, p) ==
    LET j == Greatest({j \in (p + 2)..Len(str) :
                          /\ str[j] # "\n"
                          /\ \A k \in (p + 2)..(j - 1) : IsSpace(str[k])})
    IN ToEndOfLine(str, j)

\* the title the complete handler sets, if it sets one
ExtractTitle(content) ==
    IF content = <<>> THEN [set |-> FALSE, title |-> <<>>]
    ELSE IF MarkdownMatches(content) # {}
    THEN [set |-> TRUE,
          title |-> Trim(ToEndOfLine(content, Least(MarkdownMatches(content)) + 2))]
    ELSE IF NumberedStarts(content) # {}
    THEN [set |-> TRUE,
          title |-> Trim(NumberedCapture(content, Least(NumberedStarts(content))))]
    ELSE LET firstLine == Trim(ToEndOfLine(content, 1))
         IN IF firstLine # <<>> THEN [set |-> TRUE, title |-> firstLine]
            ELSE [set |-> FALSE, title |-> <<>>]

-----------------------------------------------------------------------------
(* RecipeDisplay: typewriter, event handling, and the effects that follow  *)
(* a state change.                                                         *)

\* the cursor effect on [isTyping, showCursor]: the blink interval is armed
\* exactly while one of them is set
Effects(d) == [d EXCEPT !.cursorInterval = d.isTyping \/ d.showCursor]

\* type(): one step of the typewriter closure over (content, index)
TypeStep(d) ==
    LET tw == d.typewriter IN
    IF tw.index < Len(tw.content)
    THEN [d EXCEPT !.displayedContent = SubSeq(tw.content, 1, tw.index + 1),
                   !.typewriter = [tw EXCEPT !.index = tw.index + 1, !.pending = TRUE]]
    ELSE [d EXCEPT !.isTyping = FALSE, !.showCursor = FALSE,
                   !.typewriter = [tw EXCEPT !.pending = FALSE]]

\* startTypewriter(content)
StartTypewriter(d, content) ==
    TypeStep([d EXCEPT !.displayedContent = <<>>,
                       !.isTyping = TRUE,
                       !.showCursor = TRUE,
                       !.hasStartedTypingRef = FALSE,
                       !.typewriter = [content |-> content, index |-> 0,
                                       pending |-> FALSE, stale |-> FALSE]])

\* the body of the line loop for one parsed event
HandleEvent(d, ev) ==
    IF ev.type = "complete" /\ ~d.hasStartedTypingRef
    THEN LET t == ExtractTitle(ev.content)
         IN StartTypewriter([d EXCEPT !.hasStartedTypingRef = TRUE,
                                      !.recipeTitle = IF t.set THEN t.title ELSE @,
                                      !.fullContent = ev.content],
                            ev.content)
    ELSE IF ev.type = "error"
    THEN [d EXCEPT !.error = [msg |-> ev.message, n |-> 0],
                   !.showCursor = FALSE,
                   !.isTyping = FALSE]
    ELSE d

RECURSIVE HandleEvents(_, _)
HandleEvents(d, evs) ==
    IF evs = <<>> THEN d ELSE HandleEvents(HandleEvent(d, Head(evs)), Tail(evs))

FinallyKeepsFlag(d) ==
    [d EXCEPT !.isGeneratingRecipe = FALSE, !.showCursor = FALSE, !.isTyping = FALSE]

\* the finally block of generateRecipe
Finally(d) ==
    [d EXCEPT !.isGeneratingRef = FALSE,
              !.isGeneratingRecipe = FALSE,
              !.showCursor = FALSE,
              !.isTyping = FALSE]

\* the error message generateRecipe sets for a response that is not ok
NotOkError(status, retryAfter) ==
    IF status = 429
    THEN [msg |-> "Rate limit exceeded. Please wait N seconds before trying again.",
          n |-> IF retryAfter = 0 THEN 60 ELSE retryAfter]
    ELSE IF status = 500
    THEN [msg |-> "Server error occurred. Please try again in a moment.", n |-> 0]
    ELSE [msg |-> "Request failed (N). Please try again.", n |-> status]

NetworkError == [msg |-> "Network error: <message>", n |-> 0]

AbortIgnored(reqs, id) == reqs

\* controller.abort() on the controller of request id: the pending await of
\* that request rejects with an AbortError
Abort(reqs, id) ==
    IF id = 0 THEN reqs
    ELSE IF reqs[id].pc \in {"fetching", "reading"}
    THEN [reqs EXCEPT ![id] = [@ EXCEPT !.pc = "aborted"]]
    ELSE IF reqs[id].pc = "errbody"
    THEN [reqs EXCEPT ![id] = [@ EXCEPT !.pc = "abortedErrBody"]]
    ELSE reqs

\* a request whose fetch was sent and has neither finished nor been aborted
InFlight(q) == q.pc \in {"fetching", "errbody", "reading"}

\* a rejected await resumes its function before any other event is handled
NoPendingRejection == \A r \in ClientReqs : creq[r].pc \notin {"aborted", "abortedErrBody"}

-----------------------------------------------------------------------------
(* RecipeDisplay: the operations.  Each action is one turn of the event    *)
(* loop: a user event, a timer, or the resumption of generateRecipe after  *)
(* an await.                                                               *)

AlreadyGeneratingIgnored == FALSE

\* if (isGeneratingRef.current) return;
AlreadyGenerating == rd.isGeneratingRef

FreeSlots == {r \in ClientReqs : creq[r].pc = "free"}

\* generateRecipe(), up to `await fetch(...)`
GenerateRecipe ==
    /\ NoPendingRejection
    /\ lastOp' = "generateRecipe"
    /\ IF Len(ingredients) < 3 \/ AlreadyGenerating
       THEN UNCHANGED <<ingredients, rd, creq, cancelSnap, sinceChange>>
       ELSE /\ FreeSlots # {}
            /\ LET r == Least(FreeSlots) IN
               /\ rd' = Effects([rd EXCEPT !.isGeneratingRef = TRUE,
                                           !.isGeneratingRecipe = TRUE,
                                           !.error = NoError,
                                           !.displayedContent = <<>>,
                                           !.fullContent = <<>>,
                                           !.recipeTitle = <<>>,
                                           !.showCursor = TRUE,
                                           !.abortControllerRef = r,
                                           !.typewriter = [@ EXCEPT !.stale = TRUE]])
               /\ creq' = [Abort(creq, rd.abortControllerRef) EXCEPT ![r] =
                             [FreeReq EXCEPT !.pc = "fetching", !.ingredients = ingredients]]
            /\ cancelSnap' = NoSnap
            /\ UNCHANGED <<ingredients, sinceChange>>
    /\ UNCHANGED <<limiterVars, serverVars, validationVars, auxVars>>

\* the parent passes another ingredient list; the effect on [ingredients] runs
IngredientsChange ==
    /\ NoPendingRejection
    /\ \E new \in IngredientLists \ {ingredients} : ingredients' = new
    /\ creq' = Abort(creq, rd.abortControllerRef)
    /\ rd' = Effects([rd EXCEPT !.abortControllerRef = 0,
                                !.isGeneratingRef = FALSE,
                                !.isGeneratingRecipe = FALSE,
                                !.displayedContent = <<>>,
                                !.fullContent = <<>>,
                                !.recipeTitle = <<>>,
                                !.error = NoError])
    /\ sinceChange' = IF (\E r \in ClientReqs : InFlight(creq[r])) \/ rd.typewriter.pending
                      THEN TRUE ELSE sinceChange
    /\ cancelSnap' = NoSnap
    /\ lastOp' = "other"
    /\ UNCHANGED <<limiterVars, serverVars, validationVars, auxVars>>

\* cancelGeneration()
CancelGeneration ==
    /\ NoPendingRejection
    /\ creq' = Abort(creq, rd.abortControllerRef)
    /\ rd' = Effects([rd EXCEPT !.typewriter = [@ EXCEPT !.pending = FALSE],
                                !.isGeneratingRef = FALSE,
                                !.isGeneratingRecipe = FALSE,
                                !.showCursor = FALSE,
                                !.isTyping = FALSE])
    /\ cancelSnap' =
         IF cancelSnap.active THEN [cancelSnap EXCEPT !.again = TRUE]
         ELSE IF \E r \in ClientReqs : creq[r].pc = "reading"
         THEN [active |-> TRUE, again |-> FALSE,
               fullContent |-> rd'.fullContent,
               displayedContent |-> rd'.displayedContent,
               recipeTitle |-> rd'.recipeTitle,
               showCursor |-> rd'.showCursor,
               isTyping |-> rd'.isTyping,
               unread |-> LET q == creq[CHOOSE r \in ClientReqs : creq[r].pc = "reading"]
                          IN Len(q.stream) - q.pos]
         ELSE cancelSnap
    /\ lastOp' = "cancelGeneration"
    /\ UNCHANGED <<ingredients, sinceChange, limiterVars, serverVars, validationVars, auxVars>>

\* the await of an aborted request rejects: catch (AbortError) and finally; an
\* aborted response.json() is swallowed by .catch(() => ({})) instead
AbortObserved(r) ==
    /\ creq[r].pc \in {"aborted", "abortedErrBody"}
    /\ rd' = Effects(Finally(
                IF creq[r].pc = "abortedErrBody"
                THEN [rd EXCEPT !.error = NotOkError(creq[r].status, 0)]
                ELSE rd))
    /\ creq' = [creq EXCEPT ![r] = FreeReq]
    /\ lastOp' = "other"
    /\ UNCHANGED <<ingredients, cancelSnap, sinceChange, limiterVars, serverVars, validationVars, auxVars>>

\* fetch resolves with a response that is not ok: `await response.json()`
FetchNotOk(r) ==
    /\ NoPendingRejection
    /\ creq[r].pc = "fetching"
    /\ \E st \in {429, 500, 400} : \E ra \in {0, 37} :
          /\ ra # 0 => st = 429
          /\ creq' = [creq EXCEPT ![r] = [@ EXCEPT !.pc = "errbody", !.status = st,
                                                   !.retryAfter = ra]]
    /\ lastOp' = "other"
    /\ UNCHANGED <<ingredients, rd, cancelSnap, sinceChange, limiterVars, serverVars, validationVars, auxVars>>

\* the error body has been read: setError, return, finally
ErrBodyResolves(r) ==
    /\ NoPendingRejection
    /\ creq[r].pc = "errbody"
    /\ rd' = Effects(Finally([rd EXCEPT !.error =
                                 NotOkError(creq[r].status, creq[r].retryAfter)]))
    /\ creq' = [creq EXCEPT ![r] = FreeReq]
    /\ lastOp' = "other"
    /\ UNCHANGED <<ingredients, cancelSnap, sinceChange, limiterVars, serverVars, validationVars, auxVars>>

\* fetch resolves with an ok response and a body: getReader(), first read
FetchOk(r) ==
    /\ NoPendingRejection
    /\ creq[r].pc = "fetching"
    /\ \E frames \in Streams :
          creq' = [creq EXCEPT ![r] = [@ EXCEPT !.pc = "reading", !.status = 200,
                                                !.sent = frames,
                                                !.stream = StreamBytes(frames)]]
    /\ lastOp' = "other"
    /\ UNCHANGED <<ingredients, rd, cancelSnap, sinceChange, limiterVars, serverVars, validationVars, auxVars>>

\* fetch rejects, the ok response has no body, or a read rejects: catch, finally
RequestFails(r) ==
    /\ NoPendingRejection
    /\ creq[r].pc \in {"fetching", "reading"}
    /\ rd' = Effects(Finally([rd EXCEPT !.error = NetworkError]))
    /\ creq' = [creq EXCEPT ![r] = FreeReq]
    /\ lastOp' = "other"
    /\ UNCHANGED <<ingredients, cancelSnap, sinceChange, limiterVars, serverVars, validationVars, auxVars>>

\* reader.read() resolves with the next bytes of the stream
ReadResolves(r) ==
    /\ NoPendingRejection
    /\ creq[r].pc = "reading"
    /\ \E n \in 1..(Len(creq[r].stream) - creq[r].pos) :
          LET chunk == SubSeq(creq[r].stream, creq[r].pos + 1, creq[r].pos + n)
              evs == ParseChunk(chunk)
          IN /\ rd' = Effects(HandleEvents(rd, evs))
             /\ creq' = [creq EXCEPT ![r] = [@ EXCEPT !.pos = @ + n, !.events = @ \o evs]]
             /\ sinceChange' = IF \E i \in 1..Len(evs) : evs[i].type = "complete"
                               THEN FALSE ELSE sinceChange
    /\ lastOp' = "other"
    /\ UNCHANGED <<ingredients, cancelSnap, limiterVars, serverVars, validationVars, auxVars>>

\* reader.read() resolves with done: break, finally
ReadDone(r) ==
    /\ NoPendingRejection
    /\ creq[r].pc = "reading"
    /\ creq[r].pos = Len(creq[r].stream)
    /\ rd' = Effects(Finally(rd))
    /\ creq' = [creq EXCEPT ![r] = FreeReq]
    /\ lastOp' = "other"
    /\ UNCHANGED <<ingredients, cancelSnap, sinceChange, limiterVars, serverVars, validationVars, auxVars>>

\* the typewriter's timeout fires
TypewriterTick ==
    /\ NoPendingRejection
    /\ rd.typewriter.pending
    /\ rd' = Effects(TypeStep(rd))
    /\ lastOp' = "other"
    /\ UNCHANGED <<ingredients, creq, cancelSnap, sinceChange, limiterVars, serverVars, validationVars, auxVars>>

\* the cursor interval fires
CursorTick ==
    /\ NoPendingRejection
    /\ rd.cursorInterval
    /\ rd' = Effects([rd EXCEPT !.showCursor = ~@])
    /\ lastOp' = "other"
    /\ UNCHANGED <<ingredients, creq, cancelSnap, sinceChange, limiterVars, serverVars, validationVars, auxVars>>

InitClient ==
    /\ now = 0
    /\ advances = 0
    /\ limiters = [l \in LimiterNames |-> EmptyStore]
    /\ caller = [id |-> "203.0.113.7", auth |-> FALSE]
    /\ rlLast = NoCall
    /\ rlWindow = [a \in {"generation", "validation"} |-> [start |-> 0, calls |-> 0]]
    /\ InitServerIdle
    /\ InitClientIdle
    /\ InitAuxIdle
    /\ InitValidationIdle

NextClient ==
    \/ GenerateRecipe
    \/ IngredientsChange
    \/ CancelGeneration
    \/ TypewriterTick
    \/ CursorTick
    \/ \E r \in ClientReqs :
          \/ AbortObserved(r)
          \/ FetchNotOk(r)
          \/ ErrBodyResolves(r)
          \/ FetchOk(r)
          \/ RequestFails(r)
          \/ ReadResolves(r)
          \/ ReadDone(r)

SpecClient == InitClient /\ [][NextClient]_vars

-----------------------------------------------------------------------------
(* The validation on its own: a body is drawn and safeParse is applied.    *)

MaxListLen == 3     \* entries of the lists built from IngredientEntries

\* entries a client may send
IngredientEntries ==
    {<<"t", "o", "m", "a", "t", "o">>,
     <<"T", "o", "m", "a", "t", "o">>,
     <<"b", "a", "s", "i", "l">>,
     <<" ", "B", "a", "s", "i", "l", " ">>,
     <<"o", "l", "i", "v", "e", " ", "o", "i", "l">>,
     <<"g", "a", "r", "l", "i", "c">>,
     <<>>,
     <<" ", "\t">>,
     <<"S", "e", "a", " ", " ", "&", "S", "a", "l", "t">>,
     [i \in 1..MAX_INGREDIENT_LENGTH |-> "y"],
     [i \in 1..(MAX_INGREDIENT_LENGTH + 1) |-> "x"]}

\* n distinct one-letter entries
LetterList(n) == [i \in 1..n |-> <<LowerCaseLetters[i]>>]

ValidationLists ==
    UNION {[1..n -> IngredientEntries] : n \in 0..MaxListLen}
    \cup {LetterList(MAX_INGREDIENTS), LetterList(MAX_INGREDIENTS + 1),
          [LetterList(MAX_INGREDIENTS) EXCEPT ![MAX_INGREDIENTS] = <<"A">>]}

InitValidation ==
    /\ now = 0
    /\ advances = 0
    /\ limiters = [l \in LimiterNames |-> EmptyStore]
    /\ caller = [id |-> "203.0.113.7", auth |-> FALSE]
    /\ rlLast = NoCall
    /\ rlWindow = [a \in {"generation", "validation"} |-> [start |-> 0, calls |-> 0]]
    /\ InitServerIdle
    /\ InitClientIdle
    /\ InitAuxIdle
    /\ vbody \in {JsonWith(list) : list \in ValidationLists} \cup {JsonWithout}
    /\ vres = NotParsed

\* recipeGenerationSchema.safeParse(body)
CallSafeParse ==
    /\ ~vres.done
    /\ vres' = [done |-> TRUE] @@ SafeParse(vbody)
    /\ UNCHANGED <<vbody, limiterVars, serverVars, clientVars, auxVars>>

NextValidation == CallSafeParse

SpecValidation == InitValidation /\ [][NextValidation]_vars

-----------------------------------------------------------------------------
(* findClosestIngredient on its own: an input is drawn, the function is    *)
(* applied to it.                                                          *)

MaxInputLen == 3    \* longest input drawn from the alphabet

\* all strings over an alphabet up to a length
StringsUpTo(alphabet, n) == UNION {[1..k -> alphabet] : k \in 0..n}

MatcherInputs ==
    StringsUpTo({"h", "a", "m"}, MaxInputLen)
    \cup {<<"t", "o", "m", "a", "t", "o", "e">>,
          <<"T", "o", "m", "a", "t", "o">>,
          <<" ", "B", "A", "S", "I", "L", " ">>,
          <<"p", "e", "a">>,
          <<"s", "o", "a", "p">>,
          <<"m", "o", "t", "o", "r", " ", "o", "i", "l">>,
          <<"g", "l", "a", "s">>,
          <<"x", "y", "z">>,
          <<"a", "n">>,
          <<"t", "o">>,
          <<"o", "l", "i", "v", "e", " ", "o", "y", "l">>,
          <<"<", "b", ">", "h", "a", "m", "<", "/", "b", ">">>,
          <<"c", "h", "e", "e", "s">>,
          <<"s", "e", "a", " ", "s", "a", "l", "t">>}

IdleLimiter ==
    /\ now = 0
    /\ advances = 0
    /\ limiters = [l \in LimiterNames |-> EmptyStore]
    /\ caller = [id |-> "203.0.113.7", auth |-> FALSE]
    /\ rlLast = NoCall
    /\ rlWindow = [a \in {"generation", "validation"} |-> [start |-> 0, calls |-> 0]]

InitMatcher ==
    /\ IdleLimiter
    /\ InitServerIdle
    /\ InitClientIdle
    /\ InitValidationIdle
    /\ matcher \in {[input |-> i, result |-> NotMatched] : i \in MatcherInputs}
    /\ titleRun = IdleTitleRun
    /\ areq = IdleAutocomplete
    /\ inp = IdleInput

CallFindClosestIngredient ==
    /\ ~matcher.result.done
    /\ matcher' = [matcher EXCEPT !.result = [done |-> TRUE] @@ FindClosestIngredient(matcher.input)]
    /\ UNCHANGED <<limiterVars, serverVars, clientVars, validationVars, titleRun, areq, inp>>

NextMatcher == CallFindClosestIngredient

SpecMatcher == InitMatcher /\ [][NextMatcher]_vars

-----------------------------------------------------------------------------
(* Title extraction on its own: the content of a complete event is drawn,  *)
(* the handler's extraction is applied to it.                              *)

MaxContentLen == 3  \* longest content drawn from the alphabet

TitleContents ==
    StringsUpTo({"#", " ", "1", ".", "\n", "A"}, MaxContentLen)
    \cup {<<"1", ".", " ", "T", "o", "m", "a", "t", "o", " ", "B", "a", "s", "i", "l", " ", "P", "a", "s", "t", "a", "\n", "2", ".", " ", "P", "r", "e", "p", " ", "T", "i", "m", "e", ":", " ", "1", "0", " ", "m", "i", "n", "u", "t", "e", "s">>,
          <<"#", " ", "T", "o", "m", "a", "t", "o", " ", "B", "a", "s", "i", "l", " ", "P", "a", "s", "t", "a", "\n", "\n", "A", " ", "s", "i", "m", "p", "l", "e", " ", "d", "i", "s", "h">>}

InitTitle ==
    /\ IdleLimiter
    /\ InitServerIdle
    /\ InitClientIdle
    /\ InitValidationIdle
    /\ matcher = IdleMatcher
    /\ titleRun \in {[IdleTitleRun EXCEPT !.content = c] : c \in TitleContents}
    /\ areq = IdleAutocomplete
    /\ inp = IdleInput

\* the title part of the complete handler (recipeTitle is '' before)
CallExtractTitle ==
    /\ ~titleRun.done
    /\ titleRun' = [titleRun EXCEPT !.done = TRUE, !.result = ExtractTitle(titleRun.content)]
    /\ UNCHANGED <<limiterVars, serverVars, clientVars, validationVars, matcher, areq, inp>>

NextTitle == CallExtractTitle

SpecTitle == InitTitle /\ [][NextTitle]_vars

-----------------------------------------------------------------------------
(* The autocomplete handler on its own: requests of one caller, one at a   *)
(* time.                                                                   *)

\* the `q` parameter of the request
Queries == MatcherInputs

ValidationConsumed(lims, c) ==
    LET store == lims["rateLimiterValidation"]
        key == <<"validation", c.id>>
    IN IF key \in DOMAIN store THEN store[key].value ELSE 0

InitAutocomplete ==
    /\ IdleLimiter
    /\ InitServerIdle
    /\ InitClientIdle
    /\ InitValidationIdle
    /\ matcher = IdleMatcher
    /\ titleRun = IdleTitleRun
    /\ areq = IdleAutocomplete
    /\ inp = IdleInput

\* A request arrives; the handler runs up to `await getUserFromRequest(request)`,
\* or answers at once when the query is shorter than 2 characters.
GetReceive ==
    /\ areq.pc = "idle"
    /\ ValidationConsumed(limiters, caller) < VALIDATION_REQUESTS_PER_MINUTE + MaxOver
    /\ \E q \in Queries :
          LET query == ToLowerCase(q)
          IN areq' = IF Len(query) < 2
                     THEN [IdleAutocomplete EXCEPT !.pc = "done", !.query = query,
                                                   !.response = CreateSuccessResponse(<<>>)]
                     ELSE [IdleAutocomplete EXCEPT !.pc = "auth", !.query = query]
    /\ UNCHANGED <<limiterVars, serverVars, clientVars, validationVars, matcher, titleRun, inp>>

\* consumeValidationRateLimit, then the 429 answer or the suggestions
GetRateCheck ==
    LET c == ConsumeValidationRateLimit(caller.id, limiters, now)
    IN /\ areq.pc = "auth"
       /\ limiters' = c.limiters
       /\ areq' = [areq EXCEPT !.pc = "done", !.rl = c.result,
                               !.response = IF c.result.allowed
                                            THEN CreateSuccessResponse(Suggestions(areq.query))
                                            ELSE SlowDown(c.result)]
       /\ UNCHANGED <<now, advances, caller, rlLast, rlWindow, serverVars, clientVars,
                      validationVars, matcher, titleRun, inp>>

\* the response has been sent
GetRelease ==
    /\ areq.pc = "done"
    /\ areq' = IdleAutocomplete
    /\ UNCHANGED <<limiterVars, serverVars, clientVars, validationVars, matcher, titleRun, inp>>

NextAutocomplete == GetReceive \/ GetRateCheck \/ GetRelease

SpecAutocomplete == InitAutocomplete /\ [][NextAutocomplete]_vars

-----------------------------------------------------------------------------
(* IngredientInput on its own: the user types, time passes, timers fire,   *)
(* the two endpoints answer, and ingredients are added.                    *)

MaxChanges == 2     \* handleInputChange calls followed

\* time passes by half the debounce delay or by all of it
InputSteps == {DEBOUNCE_DELAY \div 2, DEBOUNCE_DELAY}

\* how a fetch ends: a 200 answer, an answer that is not ok, a rejection
FetchOutcomes == {"ok", "notOk", "failed"}

RemoveAt(seq, i) == SubSeq(seq, 1, i - 1) \o SubSeq(seq, i + 1, Len(seq))

InitInput ==
    /\ IdleLimiter
    /\ InitServerIdle
    /\ InitClientIdle
    /\ InitValidationIdle
    /\ matcher = IdleMatcher
    /\ titleRun = IdleTitleRun
    /\ areq = IdleAutocomplete
    /\ inp \in {[IdleInput EXCEPT !.ingredients = l] :
                   l \in {<<>>, <<<<"t", "o", "m", "a", "t", "o">>>>}}

othersOfInput == <<limiterVars, serverVars, clientVars, validationVars, matcher, titleRun, areq>>

\* handleInputChange(value): each of the two debounced wrappers builds a new
\* debounce(...) and calls it, which arms a timer of its own
HandleInputChange ==
    /\ Len(inp.changeTimes) < MaxChanges
    /\ Len(inp.ingredients) < inp.maxIngredients
    /\ \E value \in TypedValues :
          LET n == Len(inp.changeTimes) + 1
          IN inp' = [inp EXCEPT
                       !.inputValue = value,
                       !.changeTimes = Append(@, inp.now),
                       !.timers = @ \o <<[kind |-> "suggestions", arg |-> value, change |-> n,
                                          due |-> inp.now + DEBOUNCE_DELAY],
                                         [kind |-> "validate", arg |-> value, change |-> n,
                                          due |-> inp.now + DEBOUNCE_DELAY]>>,
                       !.lastOp = "change"]
    /\ UNCHANGED othersOfInput

\* time passes, up to the moment the next timer is due
Tick ==
    /\ inp.timers # <<>>
    /\ \E d \in InputSteps :
          /\ inp.now + d <= inp.timers[1].due
          /\ inp' = [inp EXCEPT !.now = @ + d, !.lastOp = "tick"]
    /\ UNCHANGED othersOfInput

\* the oldest timer is due: the debounced function runs up to its fetch
TimerFires ==
    /\ inp.timers # <<>>
    /\ inp.timers[1].due <= inp.now
    /\ LET t == inp.timers[1]
           rest == [inp EXCEPT !.timers = Tail(@), !.lastOp = "timer"]
           call == [kind |-> t.kind, arg |-> t.arg, change |-> t.change]
       IN inp' =
            IF t.kind = "suggestions"
            THEN IF Len(t.arg) < 2
                 THEN [rest EXCEPT !.suggestions = <<>>, !.showSuggestions = FALSE]
                 ELSE [rest EXCEPT !.isLoadingSuggestions = TRUE,
                                   !.inflight = Append(@, call),
                                   !.issued = Append(@, call)]
            ELSE IF Trim(t.arg) = <<>>
                 THEN [rest EXCEPT !.validationResult = NoValidation]
                 ELSE [rest EXCEPT !.isValidating = TRUE,
                                   !.inflight = Append(@, call),
                                   !.issued = Append(@, call)]
    /\ UNCHANGED othersOfInput

\* a fetch of the suggestions settles: try / catch / finally of fetchSuggestions
SuggestionsSettle ==
    /\ \E i \in 1..Len(inp.inflight) : \E outcome \in FetchOutcomes :
          /\ inp.inflight[i].kind = "suggestions"
          /\ LET q == inp.inflight[i].arg
                 rest == [inp EXCEPT !.inflight = RemoveAt(@, i),
                                     !.isLoadingSuggestions = FALSE,
                                     !.lastOp = "settle"]
             IN inp' =
                  IF outcome = "ok"
                  THEN [rest EXCEPT !.suggestions = GetResults[q],
                                    !.showSuggestions = TRUE,
                                    !.selectedSuggestionIndex = -1]
                  ELSE IF outcome = "notOk" THEN rest
                  ELSE [rest EXCEPT !.suggestions = OfflineSuggestions[q],
                                    !.showSuggestions = OfflineSuggestions[q] # <<>>]
    /\ UNCHANGED othersOfInput

\* a fetch of the validation settles: try / catch / finally of validateIngredient
ValidationSettles ==
    /\ \E i \in 1..Len(inp.inflight) : \E outcome \in FetchOutcomes :
          /\ inp.inflight[i].kind = "validate"
          /\ outcome = "ok" => PostAccepts(inp.inflight[i].arg)
          /\ LET ing == inp.inflight[i].arg
                 rest == [inp EXCEPT !.inflight = RemoveAt(@, i),
                                     !.isValidating = FALSE,
                                     !.lastOp = "settle"]
             IN inp' =
                  IF outcome = "ok"
                  THEN [rest EXCEPT !.validationResult = PostResults[ing]]
                  ELSE IF outcome = "notOk" THEN rest
                  ELSE [rest EXCEPT !.validationResult = OfflineValidations[ing]]
    /\ UNCHANGED othersOfInput

\* the "Use this" button of the suggestion message
UseThis ==
    /\ ~inp.validationResult.isNull
    /\ inp.validationResult.hasSuggestion /\ inp.validationResult.suggestion # <<>>
    /\ inp' = [AddIngredient(inp, inp.validationResult.suggestion) EXCEPT !.lastOp = "useThis"]
    /\ UNCHANGED othersOfInput

\* a click on an entry of the suggestions dropdown
PickSuggestion ==
    /\ inp.showSuggestions
    /\ \E i \in 1..Len(inp.suggestions) :
          inp' = [AddIngredient(inp, inp.suggestions[i].value) EXCEPT !.lastOp = "pick"]
    /\ UNCHANGED othersOfInput

\* the plus button: addIngredient(inputValue)
AddTyped ==
    /\ Trim(inp.inputValue) # <<>>
    /\ Len(inp.ingredients) < inp.maxIngredients
    /\ inp' = [AddIngredient(inp, inp.inputValue) EXCEPT !.lastOp = "add"]
    /\ UNCHANGED othersOfInput

NextInput ==
    \/ HandleInputChange
    \/ Tick
    \/ TimerFires
    \/ SuggestionsSettle
    \/ ValidationSettles
    \/ UseThis
    \/ PickSuggestion
    \/ AddTyped

SpecInput == InitInput /\ [][NextInput]_vars

-----------------------------------------------------------------------------
(* Properties of RecipeDisplay (SpecClient).                               *)

Displayed(d) ==
    [fullContent |-> d.fullContent, displayedContent |-> d.displayedContent,
     recipeTitle |-> d.recipeTitle, showCursor |-> d.showCursor, isTyping |-> d.isTyping]

\* C2: at most one request of the component is in flight (fetch sent, neither
\* finished nor aborted), and a generateRecipe call made while a request is in
\* flight for the current ingredient list issues no fetch and changes no state.
C2_SingleFlight ==
    [][/\ Cardinality({r \in ClientReqs : InFlight(creq'[r])}) <= 1
       /\ (/\ lastOp' = "generateRecipe"
           /\ \E r \in ClientReqs : InFlight(creq[r]) /\ creq[r].ingredients = ingredients)
          => UNCHANGED <<rd, creq, ingredients>>]_vars

\* generateRecipe was called while the request was reading its stream
C2_Witness ==
    /\ lastOp = "generateRecipe"
    /\ \E r \in ClientReqs :
          /\ creq[r].pc = "reading" /\ creq[r].pos > 0
          /\ creq[r].ingredients = ingredients

\* C3: after the ingredient list changed while a recipe was being fetched or
\* typed out, displayedContent, fullContent and recipeTitle stay empty until a
\* later request delivers a complete event.
C3_EmptyAfterIngredientsChange ==
    sinceChange => /\ rd.displayedContent = <<>>
                   /\ rd.fullContent = <<>>
                   /\ rd.recipeTitle = <<>>

\* C4: once a new request has been issued, no character of the previous recipe
\* is written to displayedContent: while the typewriter closure is the previous
\* recipe's, displayedContent only stays as it is or is emptied.
C4_NoOldCharacterAfterNewRequest ==
    [][(rd.typewriter.stale /\ rd'.typewriter.stale)
         => rd'.displayedContent \in {rd.displayedContent, <<>>}]_vars

\* C5: after cancelGeneration cut a read, fullContent, displayedContent,
\* recipeTitle, showCursor and isTyping keep the values they had right after
\* the cancel, and a second cancelGeneration changes nothing.
C5_CancelFreezesDisplay ==
    [][/\ cancelSnap'.active =>
             Displayed(rd') = [f \in DOMAIN Displayed(rd') |-> cancelSnap'[f]]
       /\ (cancelSnap.active /\ lastOp' = "cancelGeneration")
             => UNCHANGED <<rd, creq, ingredients>>]_vars

\* cancelled in the middle of typing with bytes of the stream still unread,
\* then cancelled again
C5_Witness ==
    /\ cancelSnap.active /\ cancelSnap.again
    /\ cancelSnap.unread > 0
    /\ cancelSnap.displayedContent # <<>>

\* the events dispatched when each frame arrives in a read of its own
RECURSIVE EventsFrameByFrame(_)
EventsFrameByFrame(frames) ==
    IF frames = <<>> THEN <<>>
    ELSE ParseChunk(FrameBytes(Head(frames))) \o EventsFrameByFrame(Tail(frames))

\* C6: however the byte stream is cut into reads, once it has been read to its
\* end the consumer has processed the same sequence of events as when each
\* frame arrives in its own read.
C6_ReadCutIndependence ==
    \A r \in ClientReqs :
        (creq[r].pc = "reading" /\ creq[r].pos = Len(creq[r].stream))
            => creq[r].events = EventsFrameByFrame(creq[r].sent)

\* the request has dispatched a complete or an error event of its stream
TerminalProcessed(q) ==
    \E i \in 1..Len(q.events) : q.events[i].type \in {"complete", "error"}

\* C19: once the consumer has processed a terminal event of a stream it treats
\* the stream as ended, EOF or not: the request no longer counts as in flight,
\* and no later frame of the stream changes fullContent, displayedContent,
\* recipeTitle or error.
C19_TerminalEventEndsStream ==
    [][\A r \in ClientReqs :
          (creq[r].pc = "reading" /\ TerminalProcessed(creq[r]))
          => /\ ~rd.isGeneratingRef /\ ~rd.isGeneratingRecipe
             /\ creq'[r].pos > creq[r].pos
                   => UNCHANGED <<rd.fullContent, rd.displayedContent,
                                  rd.recipeTitle, rd.error>>]_vars

IsPrefix(a, b) == Len(a) <= Len(b) /\ a = SubSeq(b, 1, Len(a))

\* C20: displayedContent is always a prefix of fullContent, and a typewriter
\* tick that writes extends displayedContent by exactly the next character of
\* fullContent.
C20_DisplayedIsPrefixOfFull ==
    [][/\ IsPrefix(rd'.displayedContent, rd'.fullContent)
       /\ (/\ rd.typewriter.pending
           /\ rd'.typewriter.index = rd.typewriter.index + 1
           /\ creq' = creq)
          => rd'.displayedContent =
                SubSeq(rd.fullContent, 1, Len(rd.displayedContent) + 1)]_vars

\* C21: from startTypewriter until the last character is revealed, isTyping
\* stays true and the cursor-blink interval stays armed; when the last
\* character has been revealed, or an error event is processed, isTyping and
\* showCursor are false and no blink interval is armed.
C21_TypingActiveUntilRevealed ==
    [][/\ (rd'.typewriter.pending /\ ~rd'.typewriter.stale /\ rd'.error = NoError)
             => (rd'.isTyping /\ rd'.cursorInterval)
       /\ (/\ rd.typewriter.pending /\ ~rd'.typewriter.pending
           /\ rd.typewriter.index = Len(rd.typewriter.content)
           /\ ingredients' = ingredients)
             => (~rd'.isTyping /\ ~rd'.showCursor /\ ~rd'.cursorInterval)
       /\ (\E r \in ClientReqs :
              /\ creq'[r].pc = "reading"
              /\ Len(creq'[r].events) > Len(creq[r].events)
              /\ creq'[r].events[Len(creq'[r].events)].type = "error")
             => (~rd'.isTyping /\ ~rd'.showCursor /\ ~rd'.cursorInterval)]_vars

\* C22: a request that is ended by an abort does not set the error state:
\* when the abort is observed, error keeps the value it had.
C22_AbortSetsNoError ==
    [][\A r \in ClientReqs :
          (creq[r].pc \in {"aborted", "abortedErrBody"} /\ creq'[r].pc = "free")
          => rd'.error = rd.error]_vars

\* C30: however a request ends, the in-flight flag it set is cleared: with no
\* generateRecipe call suspended the flag is down, and a generateRecipe call
\* made then with 3 or more ingredients issues a new fetch.
C30_FlagClearedWhenRequestEnds ==
    [][/\ (\A r \in ClientReqs : creq'[r].pc = "free") => ~rd'.isGeneratingRef
       /\ (/\ lastOp' = "generateRecipe"
           /\ \A r \in ClientReqs : creq[r].pc = "free"
           /\ Len(ingredients) >= 3)
          => \E r \in ClientReqs : creq'[r].pc = "fetching"]_vars

\* a recipe was received earlier, its request ended, and a new request was issued
C30_Witness ==
    /\ lastOp = "generateRecipe"
    /\ rd.typewriter.content # <<>>
    /\ \E r \in ClientReqs : creq[r].pc = "fetching"

\* the number of bytes of the first k frames of a stream
FrameBoundary(frames, k) == Len(StreamBytes(SubSeq(frames, 1, k)))

WellFormed(f) == f.type # "malformed"

\* C25: a `data: ` line that does not parse as JSON is skipped and nothing
\* else: the read sets no error unless it dispatches an error event, the
\* request keeps reading, and a read that delivers whole frames dispatches
\* exactly its well-formed frames, in order.
C25_MalformedLineSkipped ==
    [][\A r \in ClientReqs :
          (creq[r].pc = "reading" /\ creq'[r].pos > creq[r].pos)
          => /\ creq'[r].pc = "reading"
             /\ (\A i \in (Len(creq[r].events) + 1)..Len(creq'[r].events) :
                     creq'[r].events[i].type # "error")
                => rd'.error = rd.error
             /\ \A k1, k2 \in 0..Len(creq[r].sent) :
                   (/\ k1 < k2
                    /\ creq[r].pos = FrameBoundary(creq[r].sent, k1)
                    /\ creq'[r].pos = FrameBoundary(creq[r].sent, k2))
                   => creq'[r].events =
                         creq[r].events
                            \o SelectSeq(SubSeq(creq[r].sent, k1 + 1, k2), WellFormed)]_vars

\* a well-formed frame that followed a malformed one has been dispatched
C25_Witness ==
    \E r \in ClientReqs :
        /\ creq[r].pc = "reading"
        /\ Len(creq[r].sent) = 2
        /\ creq[r].sent[1].type = "malformed"
        /\ creq[r].sent[2].type = "complete"
        /\ creq[r].events = <<creq[r].sent[2]>>

-----------------------------------------------------------------------------
(* Properties of the generation handler (SpecServer).                      *)

IsTerminal(f) == f.type \in {"complete", "error"}

HasTerminalFrame(s) == \E i \in 1..Len(s.frames) : IsTerminal(s.frames[i])

\* C1: whatever the provider delivers (text events, then end, or error, or
\* error followed by end, or a throwing stream call), the frames written to the
\* response stream are chunk frames followed by at most one terminal frame
\* (complete or error), and once a terminal frame is written the stream is
\* closed: controller.close() has been called exactly once, nothing is written
\* after the terminal frame and close is never attempted again.
C1_FramesEndWithOneTerminal ==
    \A r \in ServerSlots :
        LET s == sreq[r] IN
        /\ \A i \in 1..Len(s.frames) :
              /\ s.frames[i].type \in {"chunk", "complete", "error"}
              /\ IsTerminal(s.frames[i]) => i = Len(s.frames)
        /\ s.closeCalls <= 1
        /\ HasTerminalFrame(s) =>
              /\ s.controller = "closed"
              /\ s.isControllerClosed
              /\ s.closeCalls = 1

\* the provider reported an error and then ended: only the error frame was written
C1_Witness ==
    \E r \in ServerSlots :
        /\ sreq[r].provider = "ended"
        /\ sreq[r].frames = <<ErrorFrame(MSG_GENERATE_FAILED)>>
        /\ sreq[r].texts > 0

\* C9: under every interleaving of the concurrent generation requests of one
\* identity within one window, at most L of them are allowed by
\* consumeRateLimit, L being the limit of the identity's class.
C9_AtMostLimitAllowed == granted <= LimitOf(caller)

\* two requests were in flight together; one took the last point of the
\* window, the other was answered 429
C9_Witness ==
    /\ granted = LimitOf(caller)
    /\ \E r, q \in ServerSlots :
          /\ sreq[r].pc = "body"
          /\ sreq[q].status = 429

\* the identity's key in its limiter, once it has consumed
GenerationRecord ==
    limiters[IF caller.auth THEN "rateLimiterUser" ELSE "rateLimiterGuest"]
            [<<"recipe_generation", caller.id>>]

\* C11: a request that consumeRateLimit does not allow is answered with a
\* non-streamed 429 body carrying the limiter's retryAfter, resetTime, limit
\* and remaining; on that path no response stream is opened and the provider
\* is never called.
C11_RateLimitedAnswer ==
    \A r \in ServerSlots :
        LET s == sreq[r] IN
        /\ (s.pc \notin {"idle", "auth"} /\ ~s.rl.allowed) => s.status = 429
        /\ s.status = 429 =>
              /\ ~s.rl.allowed
              /\ s.response.status = 429 /\ ~s.response.success
              /\ s.response.details =
                    [retryAfter |-> JSNum(RoundSecsOr1(GenerationRecord.expiresAt - now)),
                     resetTime |-> GenerationRecord.expiresAt,
                     limit |-> LimitOf(caller),
                     remaining |-> JSNum(0)]
              /\ s.controller = "none" /\ s.frames = <<>>
              /\ s.providerCalls = 0 /\ s.provider = "none"

\* a request was answered 429 while another one of the identity streams
C11_Witness ==
    \E r, q \in ServerSlots :
        /\ sreq[r].status = 429 /\ sreq[r].pc = "done"
        /\ sreq[q].pc = "streaming"

\* the ingredient-list constraints: 3 to 15 entries, each non-blank, at most 50
\* characters and without a denylist term, pairwise distinct once normalized
MeetsConstraints(list) ==
    /\ Len(list) >= MIN_INGREDIENTS /\ Len(list) <= MAX_INGREDIENTS
    /\ \A i \in 1..Len(list) :
          /\ Len(Trim(list[i])) > 0
          /\ Len(list[i]) <= MAX_INGREDIENT_LENGTH
          /\ \A k \in 1..Len(BLACKLISTED_ITEMS) :
                ~Includes(ToLowerCase(list[i]), BLACKLISTED_ITEMS[k])
    /\ \A i, j \in 1..Len(list) :
          i # j => SanitizeInput(list[i]) # SanitizeInput(list[j])

\* C12: every request that passes the rate limit and whose body cannot be
\* parsed or violates a constraint of the ingredient list is answered with a
\* non-streamed status 400 that lists the violated constraints, and the
\* provider is never called for it.
C12_BadBodyAnswered400 ==
    \A r \in ServerSlots :
        LET s == sreq[r] IN
        (/\ s.pc \in {"done", "streaming"}
         /\ s.rl.allowed
         /\ ~s.body.json \/ ~MeetsConstraints(s.body.ingredients))
        => /\ s.status = 400 /\ s.response.status = 400
           /\ s.response.error = MSG_INVALID_REQUEST
           /\ s.response.details.errors # <<>>
           /\ s.controller = "none" /\ s.providerCalls = 0

OliveOilList == <<<<"t", "o", "m", "a", "t", "o">>, <<"b", "a", "s", "i", "l">>, <<"o", "l", "i", "v", "e", " ", "o", "i", "l">>>>

\* C13: a request with ingredients ["tomato", "basil", "olive oil"] from an
\* identity with quota left passes validation: the stream is opened, the
\* provider is called once, and when the provider ends normally a complete
\* event is emitted.
C13_OliveOilAccepted ==
    \A r \in ServerSlots :
        LET s == sreq[r] IN
        (/\ s.pc \in {"done", "streaming"}
         /\ s.rl.allowed
         /\ s.body = JsonWith(OliveOilList))
        => /\ s.status = 200
           /\ s.controller # "none"
           /\ s.providerCalls = 1
           /\ (s.provider = "ended" /\ s.errorDetail = "none" /\ s.controller = "closed")
                 => \E i \in 1..Len(s.frames) : s.frames[i].type = "complete"

RECURSIVE Concat(_)
Concat(chunks) == IF chunks = <<>> THEN <<>> ELSE Head(chunks) \o Concat(Tail(chunks))

\* C16: for every sequence of provider text chunks c1..cn followed by the
\* provider's end, the handler emits no chunk event and exactly one complete
\* event, whose content is c1 + ... + cn in arrival order.
C16_BufferedRelay ==
    \A r \in ServerSlots :
        LET s == sreq[r] IN
        /\ \A i \in 1..Len(s.frames) : s.frames[i].type # "chunk"
        /\ (s.provider = "ended" /\ s.errorDetail = "none" /\ s.controller = "closed")
              => s.frames = <<CompleteFrame(Concat(s.chunks))>>

\* two different chunks arrived, then end, and the complete event went out
C16_Witness ==
    \E r \in ServerSlots :
        /\ sreq[r].provider = "ended" /\ sreq[r].errorDetail = "none"
        /\ Len(sreq[r].chunks) = 2 /\ sreq[r].chunks[1] # sreq[r].chunks[2]
        /\ Len(sreq[r].frames) = 1

\* C17: once the response stream is open, when the provider has emitted end or
\* error, or the streaming call has thrown, a terminal frame has been written
\* and the stream has been closed -- in the very step that handles the event,
\* hence eventually -- unless the consumer has gone away.
C17_TerminalFrameThenClose ==
    \A r \in ServerSlots :
        LET s == sreq[r] IN
        (/\ s.pc = "streaming"
         /\ s.provider \in {"ended", "errored", "failed"}
         /\ s.controller # "cancelled")
        => /\ HasTerminalFrame(s)
           /\ s.controller = "closed"
           /\ s.isControllerClosed

\* the streaming call threw: the error frame was written and the stream closed
C17_Witness ==
    \E r \in ServerSlots :
        /\ sreq[r].pc = "streaming" /\ sreq[r].provider = "failed"
        /\ sreq[r].frames = <<ErrorFrame(MSG_CONNECT_FAILED)>>
        /\ sreq[r].controller = "closed"

\* C18: what the client sees of a failure does not depend on the failure's
\* content: the message of an error frame and of a 500 body is one of a
\* fixed set of strings, and two failures that differ only in their content
\* leave the same frames and the same body.
C18_NoErrorDetailForwarded ==
    \A r \in ServerSlots :
        LET s == sreq[r] IN
        /\ \A i \in 1..Len(s.frames) :
              s.frames[i].type = "error"
                 => s.frames[i].message \in {MSG_GENERATE_FAILED, MSG_CONNECT_FAILED}
        /\ s.status = 500 => s.response.error = MSG_INTERNAL_ERROR
        /\ \A e1, e2 \in ProviderErrors \cup {"Unexpected token"} :
              /\ OnError(s, e1).frames = OnError(s, e2).frames
              /\ OnStreamCallThrows(s, e1).frames = OnStreamCallThrows(s, e2).frames
              /\ InternalError(e1) = InternalError(e2)

\* a provider failure was turned into an error frame while another request got a 500
C18_Witness ==
    \E r, q \in ServerSlots :
        /\ sreq[r].errorDetail \in ProviderErrors
        /\ \E i \in 1..Len(sreq[r].frames) : sreq[r].frames[i].type = "error"
        /\ sreq[q].status = 500

\* C29: the handler consumes one unit of the caller's quota before it reads
\* or validates the body: the rate-limit step lowers the remaining quota by one
\* and counts as an allowed hit unless it answers 429, and the later 400 (or
\* 500 for an unreadable body) is given to a request whose unit stays consumed.
C29_QuotaConsumedBeforeBody ==
    [][\A r \in ServerSlots :
          /\ (sreq[r].pc = "auth" /\ sreq'[r].pc \in {"body", "done"})
             => /\ Consumed(limiters', caller) = Consumed(limiters, caller) + 1
                /\ sreq'[r].status = 429 <=> granted' = granted
                /\ sreq'[r].status # 429
                   => /\ granted' = granted + 1
                      /\ sreq'[r].pc = "body" /\ sreq'[r].response = NoResponse
                      /\ LimitOf(caller) - Consumed(limiters', caller) >= 0
          /\ (sreq[r].pc = "body" /\ sreq'[r].status \in {400, 500})
             => /\ sreq[r].rl.allowed
                /\ Consumed(limiters', caller) = Consumed(limiters, caller)
                /\ Consumed(limiters, caller) >= 1
                /\ granted' = granted]_vars

\* an invalid body and an unreadable body were answered after their unit was consumed
C29_Witness ==
    \E r, q \in ServerSlots :
        /\ sreq[r].status = 400 /\ sreq[r].rl.allowed
        /\ sreq[q].status = 500 /\ sreq[q].rl.allowed
        /\ Consumed(limiters, caller) = 2 /\ granted = 2

-----------------------------------------------------------------------------
(* Properties of the request validation (SpecValidation).                  *)

\* C14: recipeGenerationSchema accepts every list of 3 to 15 entries that are
\* non-blank, at most 50 characters long, free of denylist terms and pairwise
\* distinct after normalization, and the accepted value is the list of the
\* normalized entries in the original order.
C14_ValidListsAccepted ==
    (vres.done /\ vbody.hasIngredients /\ MeetsConstraints(vbody.ingredients))
    => /\ vres.success
       /\ vres.data = [i \in 1..Len(vbody.ingredients) |->
                          SanitizeInput(vbody.ingredients[i])]

\* a list was accepted in which normalization changed an entry
C14_Witness ==
    /\ vres.done /\ vres.success
    /\ Len(vres.data) = MIN_INGREDIENTS
    /\ vres.data # vbody.ingredients

EqualIgnoringCase(a, b) == ToLowerCase(a) = ToLowerCase(b)

HasCaseInsensitiveDuplicate(list) ==
    \E i, j \in 1..Len(list) : i # j /\ EqualIgnoringCase(list[i], list[j])

\* C15: for every list in which two entries are equal ignoring case,
\* validation fails and the reported errors include the duplicate-ingredients
\* message, whatever else the list satisfies or violates.
C15_DuplicatesRejected ==
    (vres.done /\ vbody.hasIngredients /\ HasCaseInsensitiveDuplicate(vbody.ingredients))
    => /\ ~vres.success
       /\ \E k \in 1..Len(vres.issues) :
             FormatValidationError(vres.issues)[k] =
                [path |-> <<"ingredients">>, index |-> -1, message |-> MSG_DUPLICATE]

\* entries that differ only in case, in a list that violates other constraints too
C15_Witness ==
    /\ vres.done
    /\ Len(vbody.ingredients) = MIN_INGREDIENTS
    /\ vbody.ingredients[1] # vbody.ingredients[2]
    /\ EqualIgnoringCase(vbody.ingredients[1], vbody.ingredients[2])
    /\ Len(vres.issues) > 1

-----------------------------------------------------------------------------
(* Properties of the fuzzy matcher (SpecMatcher).                          *)

\* (maxLen - editDistance) / maxLen
SimilarityByLength(a, b) ==
    LET maxLen == IF Len(a) > Len(b) THEN Len(a) ELSE Len(b)
    IN Ratio(maxLen - LevenshteinDistance(a, b), maxLen)

\* the decision order of the matcher on a normalized input
MatchByRules(normalized) ==
    LET score == [i \in 1..Len(COMMON_INGREDIENTS) |->
                      SimilarityByLength(normalized, COMMON_INGREDIENTS[i])]
        close == {i \in 1..Len(COMMON_INGREDIENTS) : RatioGreater(score[i], Ratio(6, 10))}
        top == CHOOSE i \in close :
                   \A j \in close : \/ RatioGreater(score[i], score[j])
                                    \/ RatioEqual(score[i], score[j]) /\ i <= j
    IN IF \E i \in 1..Len(COMMON_INGREDIENTS) : COMMON_INGREDIENTS[i] = normalized
       THEN IngredientValidation(TRUE, FALSE, <<>>, Ratio(1, 1))
       ELSE IF close # {}
       THEN IngredientValidation(FALSE, TRUE, COMMON_INGREDIENTS[top], score[top])
       ELSE IF \E k \in 1..Len(BLACKLISTED_ITEMS) :
                   \/ Includes(normalized, BLACKLISTED_ITEMS[k])
                   \/ Includes(BLACKLISTED_ITEMS[k], normalized)
       THEN IngredientValidation(FALSE, FALSE, <<>>, Ratio(0, 1))
       ELSE IngredientValidation(TRUE, FALSE, <<>>, Ratio(3, 10))

\* C24: findClosestIngredient decides in this order: the normalized input is in
\* the vocabulary (valid, confidence 1.0); else an entry scores above 0.6 (not
\* valid, the highest-scoring entry, first on ties, as suggestion with its
\* score); else a denylist term contains the input or is contained in it (not
\* valid, confidence 0, no suggestion); else valid with confidence 0.3.  The
\* input "tomatoe" is not valid and gets the suggestion "tomato".
C24_MatcherDecisionOrder ==
    matcher.result.done
    => LET expected == MatchByRules(SanitizeInput(matcher.input))
       IN /\ matcher.result.isValid = expected.isValid
          /\ matcher.result.hasSuggestion = expected.hasSuggestion
          /\ matcher.result.suggestion = expected.suggestion
          /\ RatioEqual(matcher.result.confidence, expected.confidence)
          /\ matcher.input = <<"t", "o", "m", "a", "t", "o", "e">>
             => /\ ~matcher.result.isValid
                /\ matcher.result.suggestion = <<"t", "o", "m", "a", "t", "o">>

\* "pea" is as close to "peas" as to "pear"; the first of the two is suggested
C24_Witness ==
    /\ matcher.result.done
    /\ matcher.input = <<"p", "e", "a">>
    /\ matcher.result.suggestion = <<"p", "e", "a", "s">>
    /\ RatioEqual(matcher.result.confidence, Ratio(3, 4))

-----------------------------------------------------------------------------
(* Properties of the autocomplete handler (SpecAutocomplete).              *)

\* C26: a query shorter than 2 characters is answered with the empty list and
\* the validation counter is left as it was; a query of 2 or more characters
\* consumes exactly one unit of the validation limiter before the matching,
\* and the answer carries at most 10 suggestions.
C26_AutocompleteConsumption ==
    [][/\ (areq.pc = "idle" /\ areq'.pc # "idle" /\ Len(areq'.query) < 2)
          => /\ areq'.pc = "done"
             /\ areq'.response = CreateSuccessResponse(<<>>)
             /\ limiters' = limiters
       /\ (areq.pc = "idle" /\ areq'.pc # "idle" /\ Len(areq'.query) >= 2)
          => /\ areq'.pc = "auth" /\ areq'.response = NoResponse
             /\ limiters' = limiters
       /\ (areq.pc = "auth" /\ areq'.pc = "done")
          => /\ Len(areq.query) >= 2
             /\ ValidationConsumed(limiters', caller) = ValidationConsumed(limiters, caller) + 1
             /\ areq'.response.success
                => /\ Len(areq'.response.data) <= 10
                   /\ \A i \in 1..Len(areq'.response.data) :
                         \E k \in 1..Len(COMMON_INGREDIENTS) :
                            areq'.response.data[i].value = COMMON_INGREDIENTS[k]
       /\ (areq.pc = "done" /\ areq'.pc = "idle") => limiters' = limiters]_vars

\* a query that more than 10 entries match was answered with 10 of them
C26_Witness ==
    /\ areq.pc = "done"
    /\ areq.query = <<"a", "n">>
    /\ areq.response.success
    /\ Len(areq.response.data) = 10
    /\ Len(MatchingIngredients(areq.query)) > 10
    /\ ValidationConsumed(limiters, caller) >= 1

-----------------------------------------------------------------------------
(* Properties of the title extraction (SpecTitle).                         *)

\* where the lines of a text start
LineStarts(str) == {p \in 1..Len(str) : p = 1 \/ str[p - 1] = "\n"}

\* the title by the three rules: a markdown heading, else a numbered line
\* `1. T`, else the first line that is not empty once trimmed
TitleByRules(content) ==
    LET nonEmpty == {p \in LineStarts(content) : Trim(ToEndOfLine(content, p)) # <<>>}
    IN IF MarkdownMatches(content) # {}
       THEN [set |-> TRUE,
             title |-> Trim(ToEndOfLine(content, Least(MarkdownMatches(content)) + 2))]
       ELSE IF NumberedStarts(content) # {}
       THEN [set |-> TRUE,
             title |-> Trim(NumberedCapture(content, Least(NumberedStarts(content))))]
       ELSE IF nonEmpty # {}
       THEN [set |-> TRUE, title |-> Trim(ToEndOfLine(content, Least(nonEmpty)))]
       ELSE [set |-> FALSE, title |-> <<>>]

\* C23: the title of a recipe is given by the first rule that matches: (1) the
\* text of a markdown heading `# T`, (2) the text of a leading numbered line
\* `1. T`, (3) the first non-empty line, trimmed.
C23_TitleByFirstMatchingRule ==
    titleRun.done => titleRun.result = TitleByRules(titleRun.content)

-----------------------------------------------------------------------------
(* Properties of IngredientInput (SpecInput).                              *)

\* changes a..b were made less than DEBOUNCE_DELAY apart, one after the other
SameBurst(d, a, b) ==
    \A n \in a..(b - 1) : d.changeTimes[n + 1] - d.changeTimes[n] < DEBOUNCE_DELAY

\* C27: for a burst of input changes, each less than DEBOUNCE_DELAY after the
\* one before, at most one validation POST and at most one suggestions GET are
\* issued, and they are issued for the last value of the burst.
C27_OneCallPerBurst ==
    /\ \A i, j \in 1..Len(inp.issued) :
          (/\ i < j
           /\ inp.issued[i].kind = inp.issued[j].kind
           /\ inp.issued[i].change < inp.issued[j].change)
          => ~SameBurst(inp, inp.issued[i].change, inp.issued[j].change)
    /\ \A i \in 1..Len(inp.issued) :
          inp.issued[i].change < Len(inp.changeTimes)
          => ~SameBurst(inp, inp.issued[i].change, inp.issued[i].change + 1)

\* C28: "Use this" appends the suggested ingredient to the list, provided the
\* list does not hold it already and is shorter than maxIngredients.
C28_UseThisAppendsSuggestion ==
    [][(/\ inp'.lastOp = "useThis"
        /\ ~inp.validationResult.isNull
        /\ inp.validationResult.hasSuggestion
        /\ \A i \in 1..Len(inp.ingredients) :
              inp.ingredients[i] # inp.validationResult.suggestion
        /\ Len(inp.ingredients) < inp.maxIngredients)
       => inp'.ingredients = Append(inp.ingredients, inp.validationResult.suggestion)]_vars

-----------------------------------------------------------------------------
(* Properties of the rate limiter (SpecLimiter).                           *)

LastLimit ==
    IF rlLast.op = "generation" THEN LimitOf(caller) ELSE VALIDATION_REQUESTS_PER_MINUTE

\* C7: within one window the k-th consume of a key with limit L (k <= L) returns
\* allowed = true with remaining = L - k, and every later consume of the window
\* returns allowed = false with remaining = 0 and retryAfter >= 1; for
\* consumeRateLimit and for consumeValidationRateLimit alike.
C7_ConsumeCountsDown ==
    rlLast.op # "none" =>
        IF rlLast.k <= LastLimit
        THEN /\ rlLast.result.allowed
             /\ rlLast.result.remaining = JSNum(LastLimit - rlLast.k)
        ELSE /\ ~rlLast.result.allowed
             /\ rlLast.result.remaining = JSNum(0)
             /\ rlLast.result.retryAfter.kind = "number"
             /\ rlLast.result.retryAfter.v >= 1

\* C8: once a key's window of length D has elapsed since its first consume, the
\* next consume of the key is allowed and returns remaining = L - 1, whatever
\* was consumed or rejected in the expired window.
C8_FreshWindowAfterExpiry ==
    rlLast.renewed =>
        /\ rlLast.result.allowed
        /\ rlLast.result.remaining = JSNum(LastLimit - 1)

\* C10: a consumeValidationRateLimit call, allowed or rejected, leaves the
\* generation limiters as they were, so that a consumeRateLimit call made next
\* returns what it would have returned without it; and a consumeRateLimit call
\* leaves the validation limiter as it was, likewise.
C10_LimitersIndependent ==
    [][ /\ rlWindow'["validation"] # rlWindow["validation"] =>
            /\ limiters'["rateLimiterGuest"] = limiters["rateLimiterGuest"]
            /\ limiters'["rateLimiterUser"] = limiters["rateLimiterUser"]
            /\ ConsumeRateLimit(caller.id, caller.auth, limiters', now').result
                 = ConsumeRateLimit(caller.id, caller.auth, limiters, now).result
        /\ rlWindow'["generation"] # rlWindow["generation"] =>
            /\ limiters'["rateLimiterValidation"] = limiters["rateLimiterValidation"]
            /\ ConsumeValidationRateLimit(caller.id, limiters', now').result
                 = ConsumeValidationRateLimit(caller.id, limiters, now).result
      ]_vars

\* the validation quota of the window is exhausted and a generation consume
\* made after that is still allowed
C10_Witness ==
    /\ rlLast.op = "generation"
    /\ rlLast.result.allowed
    /\ WindowOpen(rlWindow["validation"], ValidationDuration, now)
    /\ rlWindow["validation"].calls > VALIDATION_REQUESTS_PER_MINUTE

=============================================================================
